---- MODULE Spec2Model ----
(***************************************************************************)
(* Floatperms (Stockade): the validator builder, the provider registry and *)
(* the matcher that evaluates a simple validator against a request.        *)
(*                                                                         *)
(* JavaScript values are modelled as strings: "true" and "false" are the   *)
(* two booleans, "explain" is a non-boolean value returned by a validation *)
(* (a failure explanation), "undefined" and "null" are themselves.  An     *)
(* error is a record [err, by]; a qualified validation name is the         *)
(* sequence of its ':'-separated segments.  A value that is not a string,  *)
(* where the code tests `typeof x === 'string'`, is written "(type) value" *)
(* as the code's messages print it.  A parameter definition is a record    *)
(* [type, prefix, rest, hasValue, value]: a string is split into the one   *)
(* of '?', '$', 'req.' it starts with ("" for none) and the '.'-separated  *)
(* pieces that follow; an object has or lacks a `value` field.             *)
(***************************************************************************)
EXTENDS Integers, Sequences, FiniteSets, TLC

\* Longest list of names handed to allOf(...) / anyOf(...).
MaxTargets == 2

\* Names a policy may list: the provider's two validations, a name the
\* provider does not define, and the wildcard.
TargetNames == {"A", "B", "Z", "*"}

\* What a validation method of the provider does when called: resolve to
\* true, to false, to an explanation value, or reject (throw).
Outcomes == {"true", "false", "explain", "throw"}

\* Namespace arguments given to register / for: "" stands for an omitted one.
NamespaceArgs == {"", "ns1"}

\* Values that are not strings, as names handed to allOf(...) / anyOf(...).
NonStringNames == {"(number) 1"}

\* Argument lists a caller hands to the builder's allOf(...) / anyOf(...):
\* none, names in either order, a repeated name, and lists holding a value
\* that is not a string, first or after a name.
NameLists ==
    { <<>>, <<"A">>, <<"A", "B">>, <<"B", "A">>, <<"A", "A">>,
      <<"(number) 1">>, <<"A", "(number) 1">>, <<"(number) 1", "A">> }

\* Properties of the builder proxy that are not members of Validator: the
\* parameter setters.
ParamNames == {"id", "user"}

VARIABLES
    namespaces,   \* main.js: the provider store, namespace -> name -> entry
    policy,       \* the builder chain of the route under test
    ev,           \* the running evaluation (one validate(req, validator) call)
    req,          \* the request object of the running evaluation
    returned,     \* what the validate calls made so far have settled with
    validator,    \* validator.js: the Validator object behind a builder proxy
    trail,        \* what the caller of that proxy has seen: its latest calls
    api,          \* what the caller of main.js has seen: its latest calls
    matching,     \* the matcher calls of one compound evaluation
    context       \* what the evaluations made on the request have found and left

vars ==
    <<namespaces, policy, ev, req, returned, validator, trail, api, matching,
      context>>

----------------------------------------------------------------------------
\* Generic helpers for JS objects and arrays.

EmptyMap == [k \in {} |-> k]

Put(f, k, v) == [x \in (DOMAIN f) \cup {k} |-> IF x = k THEN v ELSE f[x]]

Range(s) == {s[i] : i \in DOMAIN s}

\* Array.prototype.indexOf, 1-based; 0 when absent.
IndexOf(s, v) ==
    IF \E i \in DOMAIN s : s[i] = v
    THEN CHOOSE i \in DOMAIN s : s[i] = v /\ \A j \in DOMAIN s : s[j] = v => i <= j
    ELSE 0

SeqsUpTo(S, n) == UNION {[1..k -> S] : k \in 1..n}

NoError == [err |-> "none", by |-> ""]

----------------------------------------------------------------------------
\* The provider object and the registry (main.js).

ReservedNames == {"before", "after", "params", "error"}

\* A string parameter definition: prefix followed by the '.'-joined pieces.
DefString(prefix, rest) ==
    [ type |-> "string", prefix |-> prefix, rest |-> rest,
      hasValue |-> FALSE, value |-> "undefined" ]

\* An object carrying a literal in its `value` field.
LiteralWrapper(x) ==
    [ type |-> "object", prefix |-> "", rest |-> <<>>,
      hasValue |-> TRUE, value |-> x ]

NumberValue ==
    [ type |-> "number", prefix |-> "", rest |-> <<>>,
      hasValue |-> FALSE, value |-> "(number) 1" ]

\* String.prototype.startsWith on a value that is a string.
StartsWith(x, prefix) == x.type = "string" /\ x.prefix = prefix

\* A provider object: its own keys in order, its function-valued members
\* with what each does when called, its _parallel field and its _params
\* (parameter name and default definition, in key order).
Provider(outA, outB, par) ==
    [ type      |-> "object",
      keys      |-> <<"_parallel", "A", "B">>,
      fns       |-> [m \in {"A", "B"} |-> IF m = "A" THEN outA ELSE outB],
      _parallel |-> par,
      _params   |-> <<>> ]

\* What a lifecycle hook of a provider does: the provider has none, it
\* returns (nothing), or it throws.
HookBehaviours == {"absent", "returns", "throws"}

\* A provider with parameter defaults and, possibly, before / params hooks.
HookedProvider(outA, outB, before, params) ==
    LET hooks == (IF before = "absent" THEN {} ELSE {"before"})
                 \cup (IF params = "absent" THEN {} ELSE {"params"})
        hookOut(h) == IF (IF h = "before" THEN before ELSE params) = "throws"
                      THEN "throw" ELSE "undefined"
    IN  [ type      |-> "object",
          keys      |-> <<"_params">>
                        \o (IF before = "absent" THEN <<>> ELSE <<"before">>)
                        \o (IF params = "absent" THEN <<>> ELSE <<"params">>)
                        \o <<"A", "B">>,
          fns       |-> [m \in {"A", "B"} \cup hooks |->
                            IF m = "A" THEN outA
                            ELSE IF m = "B" THEN outB ELSE hookOut(m)],
          _parallel |-> "undefined",
          _params   |-> << [name |-> "id",   value |-> DefString("?", <<"id">>)],
                           [name |-> "user", value |-> DefString("req.", <<"auth", "user">>)] >> ]

\* register/unregister/for: a missing or empty namespace means 'global'.
DefaultNamespace(namespace) == IF namespace = "" THEN "global" ELSE namespace

\* A variant that keeps the reserved names among the validations.
ValidationsOfKeepingReserved(provider) ==
    SelectSeq(provider.keys, LAMBDA k : k \in DOMAIN provider.fns)

\* Object.keys(provider) filtered to functions that are not reserved names.
ValidationsOf(provider) ==
    SelectSeq(provider.keys,
              LAMBDA k : k \in DOMAIN provider.fns /\ k \notin ReservedNames)

\* The first entry of _params that register refuses, 0 when there is none:
\* a string must begin with '?', '$' or 'req.', anything else is refused.
ValidParamDefault(def) ==
    StartsWith(def, "?") \/ StartsWith(def, "$") \/ StartsWith(def, "req.")

\* A variant that refuses no entry.
FirstBadParamIgnored(params) == 0

FirstBadParam(params) ==
    LET bad == {i \in 1..Len(params) : ~ValidParamDefault(params[i].value)}
    IN  IF bad = {} THEN 0 ELSE CHOOSE i \in bad : \A j \in bad : i <= j

\* A variant without the check for a taken name: the entry is overwritten.
RegisterOverwriting(nss, provider, name, namespaceArg) ==
    LET namespace == DefaultNamespace(namespaceArg)
        nss1 == IF namespace \in DOMAIN nss THEN nss
                ELSE Put(nss, namespace, EmptyMap)
    IN  IF provider.type # "object"
        THEN [threw |-> TRUE, namespaces |-> nss,
              error |-> [err |-> "NotAProperObject", by |-> provider.type]]
        ELSE [threw |-> FALSE, error |-> NoError,
              namespaces |-> Put(nss1, namespace,
                  Put(nss1[namespace], name,
                      [ name        |-> name,
                        validations |-> ValidationsOf(provider),
                        provider    |-> provider ]))]

\* Permissions.register(provider, name, namespace) on the store nss:
\* [threw, error, namespaces].
Register(nss, provider, name, namespaceArg) ==
    LET namespace == DefaultNamespace(namespaceArg)
        nss1 == IF namespace \in DOMAIN nss THEN nss
                ELSE Put(nss, namespace, EmptyMap)
        ns == nss1[namespace]
        bad == FirstBadParam(provider._params)
    IN  IF provider.type # "object"
        THEN [threw |-> TRUE, namespaces |-> nss,
              error |-> [err |-> "NotAProperObject", by |-> provider.type]]
        ELSE IF name \in DOMAIN ns
        THEN [threw |-> TRUE, namespaces |-> nss1,
              error |-> [err |-> "AlreadyRegistered", by |-> name]]
        ELSE IF bad # 0
        THEN [threw |-> TRUE, namespaces |-> nss1,
              error |-> [err |-> IF provider._params[bad].value.type = "string"
                                 THEN "InvalidParamPrefix"
                                 ELSE "ParamNotAString",
                         by  |-> provider._params[bad].name]]
        ELSE [threw |-> FALSE, error |-> NoError,
              namespaces |-> Put(nss1, namespace,
                  Put(ns, name, [ name        |-> name,
                                  validations |-> ValidationsOf(provider),
                                  provider    |-> provider ]))]

\* The value `undefined` where a provider definition is expected.
NoEntry ==
    [ name |-> "undefined", validations |-> <<>>,
      provider |-> [ type |-> "undefined", keys |-> <<>>, fns |-> EmptyMap,
                     _parallel |-> "undefined", _params |-> <<>> ] ]

\* m without the key k.
Remove(m, k) == [x \in DOMAIN m \ {k} |-> m[x]]

\* A variant that returns the entry and leaves it in the store.
UnregisterKeeping(nss, name, namespaceArg) ==
    LET namespace == DefaultNamespace(namespaceArg)
        ns == IF namespace \in DOMAIN nss THEN nss[namespace] ELSE EmptyMap
    IN  IF name \in DOMAIN ns
        THEN [found |-> TRUE, res |-> ns[name], namespaces |-> nss]
        ELSE [found |-> FALSE, res |-> NoEntry, namespaces |-> nss]

\* Permissions.unregister(name, namespace) on the store nss:
\* [found, res, namespaces]; res is undefined when nothing was stored.
Unregister(nss, name, namespaceArg) ==
    LET namespace == DefaultNamespace(namespaceArg)
        ns == IF namespace \in DOMAIN nss THEN nss[namespace] ELSE EmptyMap
    IN  IF name \in DOMAIN ns
        THEN [found |-> TRUE, res |-> ns[name],
              namespaces |-> Put(nss, namespace, Remove(ns, name))]
        ELSE [found |-> FALSE, res |-> NoEntry, namespaces |-> nss]

\* The store as main.js creates it.
InitialNamespaces == [n \in {"global"} |-> EmptyMap]

\* The policy of a builder chain that has not been started.
NoChain ==
    [scheme |-> "", namespaceArg |-> "", method |-> "", names |-> <<>>]

\* The object Permissions.none() returns: it has a method and no target.
\* ref stands for the identity of the object, which is what indexOf
\* compares; chain and par are those of a builder proxy and unused on a
\* plain object.
PermissionsNone ==
    [ ref |-> "", kind |-> "object", chain |-> NoChain, par |-> FALSE,
      method |-> "NOP", target |-> <<>> ]

\* The error a compound constructor throws for fewer than two validators.
TooFewValidators(method) == [err |-> "TooFewValidators", by |-> method]

\* Permissions.allOf(...validatorList): [threw, error, returned].
PermissionsAllOf(validatorList) ==
    IF Len(validatorList) < 2
    THEN [threw |-> TRUE, error |-> TooFewValidators("allOf"),
          returned |-> PermissionsNone]
    ELSE [threw |-> FALSE, error |-> NoError,
          returned |-> [ ref |-> "", kind |-> "object", chain |-> NoChain,
                         par |-> FALSE,
                         method |-> "allOf", target |-> validatorList ]]

\* A variant that wraps a single validator too.
PermissionsAnyOfAcceptingOne(validatorList) ==
    IF Len(validatorList) < 1
    THEN [threw |-> TRUE, error |-> TooFewValidators("anyOf"),
          returned |-> PermissionsNone]
    ELSE [threw |-> FALSE, error |-> NoError,
          returned |-> [ ref |-> "", kind |-> "object", chain |-> NoChain,
                         par |-> FALSE,
                         method |-> "anyOf", target |-> validatorList ]]

\* Permissions.anyOf(...validatorList): [threw, error, returned].
PermissionsAnyOf(validatorList) ==
    IF Len(validatorList) < 2
    THEN [threw |-> TRUE, error |-> TooFewValidators("anyOf"),
          returned |-> PermissionsNone]
    ELSE [threw |-> FALSE, error |-> NoError,
          returned |-> [ ref |-> "", kind |-> "object", chain |-> NoChain,
                         par |-> FALSE,
                         method |-> "anyOf", target |-> validatorList ]]

----------------------------------------------------------------------------
\* The validator builder (validator.js).

\* Object.isFrozen(null) holds, as it does for every primitive.
NoTarget == [kind |-> "null", items |-> <<>>, frozen |-> TRUE]

\* new Validator(schemeName, schemeNamespace)
ValidatorCreate(schemeName, schemeNamespace) ==
    [ name |-> schemeName, namespace |-> schemeNamespace,
      params |-> [frozen |-> FALSE, entries |-> EmptyMap],
      finalized |-> FALSE, method |-> "null", target |-> NoTarget,
      execParallel |-> "undefined" ]

\* Permissions.for(name, namespace)
PermissionsFor(schemeName, namespaceArg) ==
    ValidatorCreate(schemeName, DefaultNamespace(namespaceArg))

\* compile(): the descriptor; parallel is present only when execParallel is
\* a boolean ("undefined" here stands for the absent field).
ValidatorCompile(v) ==
    [ namespace |-> v.namespace, scheme |-> v.name, method |-> v.method,
      params |-> v.params, target |-> v.target,
      parallel |-> IF v.execParallel \in {"true", "false"} THEN v.execParallel
                   ELSE "undefined" ]

\* What a call returns to its caller: the builder (proxy), a descriptor
\* (desc), a plain object, or nothing because it threw.
Returned(kind, v) ==
    [ kind |-> kind,
      desc |-> IF kind = "descriptor" THEN ValidatorCompile(v)
               ELSE ValidatorCompile(ValidatorCreate("", "")) ]

\* A call on the validator object: whether it threw, with what, the object
\* as the call leaves it, and the value returned.
Return(v, kind) ==
    [threw |-> FALSE, error |-> NoError, validator |-> v, returned |-> Returned(kind, v)]

Throw(v, error) ==
    [ threw |-> TRUE, error |-> error, validator |-> v,
      returned |-> Returned("none", v) ]

\* all() leaving the parameter overrides unfrozen.
ValidatorAllKeepingParamsOpen(v) ==
    [v EXCEPT !.finalized = TRUE, !.method = "all",
              !.target = [kind |-> "string", items |-> <<"*">>, frozen |-> TRUE]]

ValidatorAll(v) ==
    [v EXCEPT !.finalized = TRUE, !.method = "all",
              !.target = [kind |-> "string", items |-> <<"*">>, frozen |-> TRUE],
              !.params.frozen = TRUE]

ValidatorAny(v) ==
    [v EXCEPT !.finalized = TRUE, !.method = "any",
              !.target = [kind |-> "string", items |-> <<"*">>, frozen |-> TRUE],
              !.params.frozen = TRUE]

\* validationNames.forEach(...): the names pushed to the target before the
\* first one that is not a string.
RECURSIVE PushedNames(_)
PushedNames(names) ==
    IF names = <<>> THEN <<>>
    ELSE IF Head(names) \in NonStringNames THEN <<>>
    ELSE <<Head(names)>> \o PushedNames(Tail(names))

\* anyOf(...) without the check for an empty target.
ValidatorAnyOfAcceptingEmpty(v, names) ==
    LET pushed == PushedNames(names)
        v1 == [v EXCEPT !.finalized = TRUE, !.method = "anyOf",
                        !.target = [kind |-> "array", items |-> pushed, frozen |-> FALSE]]
    IN  IF Len(pushed) < Len(names)
        THEN Throw(v1, [err |-> "NotAString", by |-> names[Len(pushed) + 1]])
        ELSE Return([v1 EXCEPT !.target.frozen = TRUE, !.params.frozen = TRUE], "validator")

\* allOf(...validationNames): the object is marked finalized and given its
\* method and a fresh target before the names are looked at.
ValidatorAllOf(v, names) ==
    LET pushed == PushedNames(names)
        v1 == [v EXCEPT !.finalized = TRUE, !.method = "allOf",
                        !.target = [kind |-> "array", items |-> pushed, frozen |-> FALSE]]
    IN  IF Len(pushed) < Len(names)
        THEN Throw(v1, [err |-> "NotAString", by |-> names[Len(pushed) + 1]])
        ELSE IF Len(pushed) = 0
        THEN Throw(v1, [err |-> "NoValidationNames", by |-> "allOf"])
        ELSE Return([v1 EXCEPT !.target.frozen = TRUE, !.params.frozen = TRUE], "validator")

\* anyOf(...validationNames)
ValidatorAnyOf(v, names) ==
    LET pushed == PushedNames(names)
        v1 == [v EXCEPT !.finalized = TRUE, !.method = "anyOf",
                        !.target = [kind |-> "array", items |-> pushed, frozen |-> FALSE]]
    IN  IF Len(pushed) < Len(names)
        THEN Throw(v1, [err |-> "NotAString", by |-> names[Len(pushed) + 1]])
        ELSE IF Len(pushed) = 0
        THEN Throw(v1, [err |-> "NoValidationNames", by |-> "anyOf"])
        ELSE Return([v1 EXCEPT !.target.frozen = TRUE, !.params.frozen = TRUE], "validator")

\* parallel() leaving the preference as it was.
ValidatorParallelNoop(v) == v

ValidatorParallel(v) == [v EXCEPT !.execParallel = "true"]

\* The function-valued members of a Validator object.
ValidatorMethods == {"all", "any", "allOf", "anyOf", "parallel", "compile", "inspect"}

\* obj[property].apply(target, args)
ApplyMethod(v, property, args) ==
    CASE property = "all"      -> Return(ValidatorAll(v), "validator")
      [] property = "any"      -> Return(ValidatorAny(v), "validator")
      [] property = "allOf"    -> ValidatorAllOf(v, args)
      [] property = "anyOf"    -> ValidatorAnyOf(v, args)
      [] property = "parallel" -> Return(ValidatorParallel(v), "validator")
      [] property = "compile"  -> Return(v, "descriptor")
      [] property = "inspect"  -> Return(v, "object")

\* The wrapper without its check of obj.finalized.
ProxyMethodUnguarded(v, property, args) == ApplyMethod(v, property, args)

\* The wrapper exempting only inspect from its check of obj.finalized.
ProxyMethodCompileGuarded(v, property, args) ==
    IF v.finalized /\ property # "inspect"
    THEN Throw(v, [err |-> "AlreadyFinalized", by |-> property])
    ELSE ApplyMethod(v, property, args)

\* The wrapper the proxy returns for a property that is a function.
ProxyMethod(v, property, args) ==
    IF v.finalized /\ property # "compile" /\ property # "inspect"
    THEN Throw(v, [err |-> "AlreadyFinalized", by |-> property])
    ELSE ApplyMethod(v, property, args)

\* The setter also taking an object that carries a `value` field.
ProxySetterAcceptingObjects(v, property, args) ==
    IF Len(args) # 1
    THEN Throw(v, [err |-> "InvalidArgumentList", by |-> property])
    ELSE IF v.finalized
    THEN Throw(v, [err |-> "AlreadyFinalized", by |-> property])
    ELSE IF args[1].type = "string"
            /\ ~StartsWith(args[1], "?") /\ ~StartsWith(args[1], "$")
            /\ ~StartsWith(args[1], "req.")
    THEN Throw(v, [err |-> "InvalidStringValue", by |-> property])
    ELSE IF args[1].type # "string" /\ ~(args[1].type = "object" /\ args[1].hasValue)
    THEN Throw(v, [err |-> "ExpectedString", by |-> property])
    ELSE Return([v EXCEPT !.params.entries = Put(@, property, args[1])], "validator")

\* The dummy function the proxy returns for any other property: it sets
\* the parameter definition of that name.
ProxySetter(v, property, args) ==
    IF Len(args) # 1
    THEN Throw(v, [err |-> "InvalidArgumentList", by |-> property])
    ELSE IF v.finalized
    THEN Throw(v, [err |-> "AlreadyFinalized", by |-> property])
    ELSE IF args[1].type = "string"
            /\ ~StartsWith(args[1], "?") /\ ~StartsWith(args[1], "$")
            /\ ~StartsWith(args[1], "req.")
    THEN Throw(v, [err |-> "InvalidStringValue", by |-> property])
    ELSE IF args[1].type # "string"
    THEN Throw(v, [err |-> "ExpectedString", by |-> property])
    ELSE Return([v EXCEPT !.params.entries = Put(@, property, args[1])], "validator")

\* proxy[property](...args): the get trap followed by the call.
ProxyCall(v, property, args) ==
    IF property \in ValidatorMethods
    THEN ProxyMethod(v, property, args)
    ELSE ProxySetter(v, property, args)

\* The chain Permissions.for(scheme, ns)[.parallel()].<method>(...names).
BuildValidator(p, par) ==
    LET v0 == PermissionsFor(p.scheme, p.namespaceArg)
        v1 == IF par THEN ProxyCall(v0, "parallel", <<>>).validator ELSE v0
    IN  ProxyCall(v1, p.method, p.names).validator

----------------------------------------------------------------------------
\* The matcher (matcher.js): evaluation of a simple (true) validator.

\* JavaScript truthiness of the values used for the parallel flags.
Truthy(x) == x \notin {"undefined", "null", "false"}

\* JavaScript's comma operator: `case 'all', 'allOf':` compares against the
\* value of the expression 'all', 'allOf', which is its last operand.
CommaOp(a, b) == b

ThrownBy(methodName) == [err |-> "thrown", by |-> methodName]

TypeErrorFor(methodName) == [err |-> "TypeError", by |-> methodName]

\* `${namespace === 'global' ? '' : namespace + ':'}${scheme}:${target}`
QualifiedName(namespace, scheme, methodName) ==
    IF namespace = "global" THEN <<scheme, methodName>>
    ELSE <<namespace, scheme, methodName>>

\* .reduce((acc, v) => acc.concat((v === '*') ? scheme.validations : v), [])
RECURSIVE ExpandStar(_, _)
ExpandStar(items, validations) ==
    IF items = <<>> THEN <<>>
    ELSE (IF Head(items) = "*" THEN validations ELSE <<Head(items)>>)
         \o ExpandStar(Tail(items), validations)

\* .filter((v, i, arr) => arr.indexOf(v) === i)
Dedup(s) ==
    LET F[i \in 0..Len(s)] ==
            IF i = 0 THEN <<>>
            ELSE IF IndexOf(s, s[i]) = i THEN Append(F[i-1], s[i]) ELSE F[i-1]
    IN  F[Len(s)]

\* ExpandTargets without the duplicate filter.
ExpandTargetsKeepDuplicates(target, validations) == ExpandStar(target.items, validations)

ExpandTargets(target, validations) == Dedup(ExpandStar(target.items, validations))

EmptyResults ==
    [ hasPassed |-> FALSE, passedValidations |-> <<>>,
      failedValidations |-> <<>>, thrownErrors |-> <<>> ]

NoScheme ==
    [ name |-> "", validations |-> <<>>,
      provider |-> [ type |-> "object", keys |-> <<>>, fns |-> EmptyMap,
                     _parallel |-> "undefined", _params |-> <<>> ] ]

\* An evaluation that has not been started.  ncalls counts the calls made
\* to each member as a validation; log is the history of what extractParams
\* did: hook calls and their ends, parameters resolved, exports attached.
IdleEval ==
    [ pc |-> "idle", desc |-> ValidatorCompile(ValidatorCreate("", "")),
      scheme |-> NoScheme, targets |-> <<>>, runParallel |-> FALSE,
      i |-> 1, calls |-> <<>>, vals |-> <<>>, testResults |-> <<>>,
      results |-> EmptyResults, error |-> NoError,
      ncalls |-> EmptyMap, started |-> <<>>,
      paramDefs |-> <<>>, params |-> EmptyMap, exports |-> EmptyMap,
      log |-> <<>> ]

\* A value held by the request: a primitive, or an object with fields.
Val(x) == [t |-> "val", v |-> x, f |-> EmptyMap]

Obj(f) == [t |-> "obj", v |-> "", f |-> f]

\* The request: what req.param(name) answers, its cookies, its other data
\* fields, and the permissions container.
FreshRequest ==
    [ permissions |-> EmptyMap,
      param       |-> [n \in {<<"id">>} |-> "41"],
      cookies     |-> [n \in {<<"tok">>} |-> "c00k1e"],
      fields      |-> [n \in {"auth", "ip"} |->
                          IF n = "auth" THEN Obj([k \in {"user"} |-> Val("u7")])
                          ELSE Val("10.0.0.1")] ]

Finished(e) == e.pc \in {"resolved", "rejected"}

Reject(e, error) == [e EXCEPT !.pc = "rejected", !.error = error]

Event(kind, name) == [kind |-> kind, name |-> name]

\* pieces.reduce((acc, key) => ..., req): undefined as soon as acc is not an
\* object, else acc[key].
RECURSIVE Traverse(_, _)
Traverse(acc, pieces) ==
    IF pieces = <<>> THEN acc
    ELSE IF acc.t # "obj" THEN Val("undefined")
    ELSE IF Head(pieces) \notin DOMAIN acc.f THEN Val("undefined")
    ELSE Traverse(acc.f[Head(pieces)], Tail(pieces))

\* A variant that reads every shorthand from the request parameters.
ExtractFromParamsOnly(r, definition) ==
    LET d == definition.value
    IN  [ threw |-> FALSE, error |-> NoError,
          value |-> Val(IF d.rest \in DOMAIN r.param THEN r.param[d.rest]
                        ELSE "undefined") ]

\* extract(req, definition): [threw, error, value].
Extract(r, definition) ==
    LET d == definition.value
        ok(x) == [threw |-> FALSE, error |-> NoError, value |-> x]
        fail(err) == [ threw |-> TRUE, error |-> [err |-> err, by |-> definition.name],
                       value |-> Val("undefined") ]
    IN  IF d.type = "object"
        THEN IF d.hasValue THEN ok(Val(d.value)) ELSE fail("MissingValueField")
        ELSE IF d.type # "string" THEN fail("TypeError")
        ELSE IF StartsWith(d, "?")
        THEN ok(Val(IF d.rest \in DOMAIN r.param THEN r.param[d.rest] ELSE "undefined"))
        ELSE IF StartsWith(d, "$")
        THEN ok(Val(IF d.rest \in DOMAIN r.cookies THEN r.cookies[d.rest] ELSE "undefined"))
        ELSE IF ~StartsWith(d, "req.") THEN fail("InvalidDefinition")
        ELSE ok(Traverse(Obj(r.fields), d.rest))

\* A variant of the merge that keeps every default.
MergeParamsKeepingDefaults(overrideDefs, provider) ==
    [ i \in DOMAIN provider._params |->
        [ name  |-> provider._params[i].name,
          value |-> provider._params[i].value ] ]

\* Object.keys(baseParams).map(...): one definition per default, the
\* override taking the place of the default's value.
MergeParams(overrideDefs, provider) ==
    [ i \in DOMAIN provider._params |->
        LET paramName == provider._params[i].name
        IN  [ name  |-> paramName,
              value |-> IF paramName \in DOMAIN overrideDefs.entries
                        THEN overrideDefs.entries[paramName]
                        ELSE provider._params[i].value ] ]

\* paramDefs.forEach(def => outParams[def.name] = extract(req, def)) on the
\* evaluation e: it stops at the first extract that throws.
ResolveParams(e, r) ==
    LET F[i \in 0..Len(e.paramDefs)] ==
            IF i = 0 THEN e
            ELSE IF F[i-1].pc = "rejected" THEN F[i-1]
            ELSE LET def == e.paramDefs[i]
                     x == Extract(r, def)
                 IN  IF x.threw THEN Reject(F[i-1], x.error)
                     ELSE [F[i-1] EXCEPT
                             !.params = Put(@, def.name, x.value),
                             !.log = Append(@, Event("resolve", def.name))]
    IN  F[Len(e.paramDefs)]

\* A variant that binds the exports in a container of its own.
ExtractReturnReplacingContainer(e, r) ==
    [ ev  |-> [e EXCEPT !.pc = "extract",
                        !.log = Append(@, Event("attach", e.desc.scheme))],
      req |-> [r EXCEPT !.permissions =
                  Put(EmptyMap, e.desc.scheme,
                      [frozen |-> TRUE, exports |-> e.exports])] ]

\* The end of extractParams: req.permissions is created when missing and
\* the frozen exports are bound under req.permissions[schemeName].
ExtractReturn(e, r) ==
    [ ev  |-> [e EXCEPT !.pc = "extract",
                        !.log = Append(@, Event("attach", e.desc.scheme))],
      req |-> [r EXCEPT !.permissions =
                  Put(@, e.desc.scheme, [frozen |-> TRUE, exports |-> e.exports])] ]

\* extractParams once the before hook is behind: the parameters are
\* extracted, then the params hook, if any, is called and awaited.
ExtractAfterBefore(e, r) ==
    LET e1 == ResolveParams(e, r)
    IN  IF e1.pc = "rejected" THEN [ev |-> e1, req |-> r]
        ELSE IF "params" \in DOMAIN e.scheme.provider.fns
        THEN [ ev  |-> [e1 EXCEPT !.pc = "paramsHook",
                                  !.log = Append(@, Event("call", "params"))],
               req |-> r ]
        ELSE ExtractReturn(e1, r)

\* extractParams with the parameters extracted ahead of the before hook.
ExtractParamsResolvingFirst(e, r) ==
    LET e1 == ResolveParams([e EXCEPT
                  !.paramDefs = MergeParams(e.desc.params, e.scheme.provider)], r)
    IN  IF e1.pc = "rejected" THEN [ev |-> e1, req |-> r]
        ELSE IF "before" \in DOMAIN e.scheme.provider.fns
        THEN [ ev  |-> [e1 EXCEPT !.pc = "beforeHook", !.paramDefs = <<>>,
                                  !.log = Append(@, Event("call", "before"))],
               req |-> r ]
        ELSE ExtractAfterBefore([e1 EXCEPT !.paramDefs = <<>>], r)

\* extractParams from its start: the definitions are merged, the exports
\* object is created, and the before hook, if any, is called and awaited.
ExtractParams(e, r) ==
    LET e1 == [e EXCEPT !.paramDefs = MergeParams(e.desc.params, e.scheme.provider),
                        !.exports = EmptyMap]
    IN  IF "before" \in DOMAIN e.scheme.provider.fns
        THEN [ ev  |-> [e1 EXCEPT !.pc = "beforeHook",
                                  !.log = Append(@, Event("call", "before"))],
               req |-> r ]
        ELSE ExtractAfterBefore(e1, r)

\* What a hook that exports does: it sets a field of the exports object it
\* was handed, named after the hook here, to a value of its own, and returns.
HookReturned(e, hook) ==
    LET out == e.scheme.provider.fns[hook]
        e1 == IF out \in {"export x", "export y", "export z"}
              THEN [e EXCEPT !.exports = Put(@, hook, out)] ELSE e
    IN  [e1 EXCEPT !.log = Append(@, Event("return", hook))]

\* The awaited before hook ends, a throw being taken for a return.
BeforeSettledSwallowing(e, r) ==
    ExtractAfterBefore([e EXCEPT !.log = Append(@, Event("return", "before"))], r)

\* The awaited before hook ends: a throw rejects extractParams, and with it
\* the matcher.
BeforeSettled(e, r) ==
    IF e.scheme.provider.fns["before"] = "throw"
    THEN [ ev  |-> Reject([e EXCEPT !.log = Append(@, Event("throw", "before"))],
                          ThrownBy("before")),
           req |-> r ]
    ELSE ExtractAfterBefore(HookReturned(e, "before"), r)

\* The awaited params hook ends.
ParamsSettled(e, r) ==
    IF e.scheme.provider.fns["params"] = "throw"
    THEN [ ev  |-> Reject([e EXCEPT !.log = Append(@, Event("throw", "params"))],
                          ThrownBy("params")),
           req |-> r ]
    ELSE ExtractReturn(HookReturned(e, "params"), r)

\* A namespace that is not in the store taken for 'global'.
MatchTrueValidatorDefaultingNamespace(d, nss) ==
    LET e == [IdleEval EXCEPT !.desc = d]
        namespace == IF d.namespace \in DOMAIN nss THEN d.namespace ELSE "global"
    IN  IF d.target.kind # "array"
        THEN Reject(e, [err |-> "MalformedTarget", by |-> d.target.kind])
        ELSE IF d.scheme \notin DOMAIN nss[namespace]
        THEN Reject(e, [err |-> "SchemeNotFound", by |-> d.scheme])
        ELSE LET scheme == nss[namespace][d.scheme]
                 targets == Dedup(ExpandStar(d.target.items, scheme.validations))
             IN  [e EXCEPT !.pc = "extract",
                           !.scheme = scheme,
                           !.targets = targets,
                           !.calls = [k \in 1..Len(targets) |-> "notStarted"],
                           !.vals = [k \in 1..Len(targets) |-> "undefined"],
                           !.ncalls = [m \in DOMAIN scheme.provider.fns |-> 0]]

\* matcher -> matchTrueValidator up to `await extractParams(...)`: the checks
\* of the descriptor, the lookups in the store and the target expansion.
MatchTrueValidator(d, nss) ==
    LET e == [IdleEval EXCEPT !.desc = d]
    IN  IF d.target.kind # "array"
        THEN Reject(e, [err |-> "MalformedTarget", by |-> d.target.kind])
        ELSE IF d.namespace \notin DOMAIN nss
        THEN Reject(e, [err |-> "NamespaceNotFound", by |-> d.namespace])
        ELSE IF d.scheme \notin DOMAIN nss[d.namespace]
        THEN Reject(e, [err |-> "SchemeNotFound", by |-> d.scheme])
        ELSE LET scheme == nss[d.namespace][d.scheme]
                 targets == ExpandTargets(d.target, scheme.validations)
             IN  [e EXCEPT !.pc = "extract",
                           !.scheme = scheme,
                           !.targets = targets,
                           !.calls = [k \in 1..Len(targets) |-> "notStarted"],
                           !.vals = [k \in 1..Len(targets) |-> "undefined"],
                           !.ncalls = [m \in DOMAIN scheme.provider.fns |-> 0]]

\* testResults.forEach((res, i) => ...): each result is filed under the
\* name of targets[i].
PushResults(results, d, targets, testResults) ==
    LET F[i \in 0..Len(testResults)] ==
            IF i = 0 THEN results
            ELSE LET methodName == QualifiedName(d.namespace, d.scheme, targets[i])
                     res == testResults[i]
                 IN  IF res = "true"
                     THEN [F[i-1] EXCEPT !.passedValidations = Append(@, methodName)]
                     ELSE [F[i-1] EXCEPT !.failedValidations = Append(@,
                             [ name |-> methodName,
                               explanation |-> IF res \notin {"true", "false"}
                                               THEN res ELSE "undefined" ])]
    IN  F[Len(testResults)]

\* SwitchMethod with the allOf case taking the anyOf arithmetic.
SwitchMethodAnyForAll(method, results, targets) ==
    IF method \in {"allOf", "anyOf"}
    THEN [threw |-> FALSE, hasPassed |-> Len(results.passedValidations) > 0]
    ELSE [threw |-> TRUE, hasPassed |-> FALSE]

\* switch (validator.method): [threw, hasPassed].
SwitchMethod(method, results, targets) ==
    IF method = CommaOp("all", "allOf")
    THEN [threw |-> FALSE,
          hasPassed |-> (Len(results.passedValidations) = Len(targets))
                        /\ (Len(results.failedValidations) = 0)]
    ELSE IF method = CommaOp("any", "anyOf")
    THEN [threw |-> FALSE, hasPassed |-> Len(results.passedValidations) > 0]
    ELSE [threw |-> TRUE, hasPassed |-> FALSE]

\* Finish without the early return on thrown errors.
FinishIgnoringThrown(e) ==
    LET rs == PushResults(e.results, e.desc, e.targets, e.testResults)
        sw == IF e.desc.method = "allOf"
              THEN (Len(rs.passedValidations) = Len(e.targets))
                   /\ (Len(rs.failedValidations) = 0)
              ELSE Len(rs.passedValidations) > 0
    IN  IF e.desc.method \notin {"allOf", "anyOf"}
        THEN [Reject(e, [err |-> "InvalidMethod", by |-> e.desc.method])
                 EXCEPT !.results = rs]
        ELSE [e EXCEPT !.pc = "resolved", !.results = [rs EXCEPT !.hasPassed = sw]]

\* The tail of matchTrueValidator, once the tasks have been collected.
Finish(e) ==
    LET rs == PushResults(e.results, e.desc, e.targets, e.testResults)
    IN  IF Len(rs.thrownErrors) > 0
        THEN [e EXCEPT !.pc = "resolved", !.results = rs]
        ELSE LET sw == SwitchMethod(e.desc.method, rs, e.targets)
             IN  IF sw.threw
                 THEN [Reject(e, [err |-> "InvalidMethod", by |-> e.desc.method])
                          EXCEPT !.results = rs]
                 ELSE [e EXCEPT !.pc = "resolved",
                                !.results = [rs EXCEPT !.hasPassed = sw.hasPassed]]

\* The sequential loop from index e.i, no call being in flight, up to its
\* next await or its end.  Calling a member that is not a function throws
\* a TypeError inside the try block.
RECURSIVE SeqRun(_)
SeqRun(e) ==
    IF e.i > Len(e.targets) THEN Finish(e)
    ELSE LET t == e.targets[e.i]
         IN  IF t \in DOMAIN e.scheme.provider.fns
             THEN [e EXCEPT !.pc = "seq",
                            !.calls[e.i] = "pending",
                            !.ncalls[t] = @ + 1,
                            !.started = Append(@, e.i)]
             ELSE SeqRun([e EXCEPT !.calls[e.i] = "rejected",
                                   !.started = Append(@, e.i),
                                   !.results.thrownErrors = Append(@, TypeErrorFor(t)),
                                   !.i = @ + 1])

\* SeqSettled with a throw ending the loop (no try/catch around the await
\* inside the loop body).
SeqSettledShortCircuit(e) ==
    LET t == e.targets[e.i]
        out == e.scheme.provider.fns[t]
    IN  IF out = "throw"
        THEN [e EXCEPT !.pc = "resolved",
                       !.calls[e.i] = "rejected",
                       !.results.thrownErrors = Append(@, ThrownBy(t))]
        ELSE SeqRun([e EXCEPT !.calls[e.i] = "fulfilled",
                              !.vals[e.i] = out,
                              !.testResults = Append(@, out),
                              !.i = @ + 1])

\* The awaited sequential call settles; the loop goes on.
SeqSettled(e) ==
    LET t == e.targets[e.i]
        out == e.scheme.provider.fns[t]
    IN  IF out = "throw"
        THEN SeqRun([e EXCEPT !.calls[e.i] = "rejected",
                              !.results.thrownErrors = Append(@, ThrownBy(t)),
                              !.i = @ + 1])
        ELSE SeqRun([e EXCEPT !.calls[e.i] = "fulfilled",
                              !.vals[e.i] = out,
                              !.testResults = Append(@, out),
                              !.i = @ + 1])

\* `await Promise.all(promises)` inside try/catch, looked at when nothing
\* has rejected: it resolves with the values, in index order, once every
\* promise is fulfilled.
AwaitAll(e) ==
    IF \A k \in DOMAIN e.calls : e.calls[k] = "fulfilled"
    THEN Finish([e EXCEPT !.testResults = e.vals])
    ELSE [e EXCEPT !.pc = "awaitAll"]

\* targets.forEach(methodName => promises.push(provider[methodName](...)))
\* from index k: a member that is not a function throws out of the matcher.
RECURSIVE ParLaunch(_, _)
ParLaunch(e, k) ==
    IF k > Len(e.targets) THEN AwaitAll(e)
    ELSE LET t == e.targets[k]
         IN  IF t \in DOMAIN e.scheme.provider.fns
             THEN ParLaunch([e EXCEPT !.calls[k] = "pending",
                                      !.ncalls[t] = @ + 1,
                                      !.started = Append(@, k)], k + 1)
             ELSE Reject([e EXCEPT !.calls[k] = "rejected",
                                   !.started = Append(@, k)], TypeErrorFor(t))

\* One of the calls launched in parallel settles.  While the matcher awaits
\* Promise.all, the first rejection rejects it and is pushed to thrownErrors;
\* afterwards a settling call is no longer looked at.
ParSettled(e, k) ==
    LET t == e.targets[k]
        out == e.scheme.provider.fns[t]
        e1 == IF out = "throw" THEN [e EXCEPT !.calls[k] = "rejected"]
              ELSE [e EXCEPT !.calls[k] = "fulfilled", !.vals[k] = out]
    IN  IF e.pc # "awaitAll" THEN e1
        ELSE IF out = "throw"
        THEN Finish([e1 EXCEPT !.results.thrownErrors = Append(@, ThrownBy(t))])
        ELSE AwaitAll(e1)

\* After `await extractParams`: validator.parallel || provider._parallel
\* picks the mode, and the tasks are launched.
LaunchTasks(e) ==
    LET runParallel == Truthy(e.desc.parallel) \/ Truthy(e.scheme.provider._parallel)
        e1 == [e EXCEPT !.runParallel = runParallel]
    IN  IF runParallel THEN ParLaunch(e1, 1) ELSE SeqRun(e1)

\* What the caller of validate(req, validator) gets.
Outcome(e) ==
    IF e.pc = "resolved"
    THEN [kind |-> "result", results |-> e.results, error |-> NoError,
          parallel |-> e.desc.parallel]
    ELSE [kind |-> "failure", results |-> EmptyResults, error |-> e.error,
          parallel |-> e.desc.parallel]

Record(e) == IF Finished(e) THEN returned \cup {Outcome(e)} ELSE returned

----------------------------------------------------------------------------
\* The state machine.

Policies ==
    {[scheme |-> "user", namespaceArg |-> n, method |-> m, names |-> s] :
        n \in NamespaceArgs, m \in {"allOf", "anyOf"},
        s \in SeqsUpTo(TargetNames, MaxTargets)}
    \cup
    {[scheme |-> "user", namespaceArg |-> n, method |-> m, names |-> <<>>] :
        n \in NamespaceArgs, m \in {"all", "any"}}

\* No call made yet on the builder proxy.
NoCall ==
    [ property |-> "none", args |-> <<>>, threw |-> FALSE, error |-> NoError,
      returned |-> Returned("none", ValidatorCreate("", "")),
      pre |-> ValidatorCreate("", "") ]

\* What the caller has seen of the builder: the latest call (with the
\* object as it was before it); whether the call before it was compile()
\* and the descriptor it then returned; the first call of all / any /
\* allOf / anyOf, with its names when it returned; the values the setters
\* that returned were given; whether a call of parallel() has returned.
NoTrail ==
    [ last |-> NoCall,
      prev |-> [compile |-> FALSE, desc |-> NoCall.returned.desc],
      terminal |-> [property |-> "none", threw |-> FALSE, args |-> <<>>],
      overrides |-> EmptyMap,
      parallel |-> FALSE ]

\* No call of main.js has been made: the latest call with what it was
\* given and what came back, the store before it, the call before it when
\* that was an unregister, and which provider each register that returned has put under which key
\* (dropped again by an unregister of that key).
NoApiCall ==
    [ op |-> "none", provider |-> NoEntry.provider, name |-> "",
      namespaceArg |-> "", list |-> <<>>,
      threw |-> FALSE, error |-> NoError, found |-> FALSE, res |-> NoEntry,
      returned |-> PermissionsNone, pre |-> InitialNamespaces ]

NoApi ==
    [ last |-> NoApiCall,
      prev |-> [op |-> "none", name |-> "", namespaceArg |-> "",
                found |-> FALSE],
      held |-> EmptyMap, heldPre |-> EmptyMap ]

\* No evaluation has been made on the request: the request as it was when
\* the running evaluation was started, and the exports that the evaluations
\* of each (namespace, scheme) have attached to it.
NoContext ==
    [ pre |-> FreshRequest, exports |-> EmptyMap,
      held |-> NoScheme, unregisteredAt |-> "never" ]

\* No compound evaluation has been started: the validator handed to
\* validate, the matcher calls that do not fan out (where in the tree, and
\* on which validator), the evaluation behind each, and the call whose
\* rejection came first (0: none has rejected).
NoMatching ==
    [ pc |-> "idle", root |-> PermissionsNone, calls |-> <<>>, evs |-> <<>>,
      first |-> 0 ]

\* The provider is registered as 'user' in the global namespace and in ns1;
\* the route's policy is one builder chain over it.
Init ==
    /\ \E outA \in Outcomes, outB \in Outcomes, par \in {"undefined", "true"} :
          LET p == Provider(outA, outB, par)
              r1 == Register(InitialNamespaces, p, "user", "")
              r2 == Register(r1.namespaces, p, "user", "ns1")
          IN  namespaces = r2.namespaces
    /\ policy \in Policies
    /\ ev = IdleEval
    /\ req = FreshRequest
    /\ returned = {}
    /\ validator = ValidatorCreate("", "")
    /\ trail = NoTrail
    /\ api = NoApi
    /\ matching = NoMatching
    /\ context = NoContext

\* Permissions.validate(req, validator) is called with the policy's chain,
\* with or without .parallel(): the matcher runs up to its first await.
Validate(par) ==
    /\ ev.pc = "idle"
    /\ LET d == ValidatorCompile(BuildValidator(policy, par))
           e == MatchTrueValidator(d, namespaces)
           x == IF e.pc = "extract" THEN ExtractParams(e, req)
                ELSE [ev |-> e, req |-> req]
       IN  /\ ev' = x.ev
           /\ req' = x.req
           /\ returned' = Record(x.ev)
    /\ UNCHANGED <<namespaces, policy, validator, trail, api, matching, context>>

\* The before hook awaited by extractParams settles.
BeforeSettle ==
    /\ ev.pc = "beforeHook"
    /\ LET x == BeforeSettled(ev, req)
       IN  /\ ev' = x.ev
           /\ req' = x.req
           /\ returned' = Record(x.ev)
    /\ UNCHANGED <<namespaces, policy, validator, trail, api, matching, context>>

\* The params hook awaited by extractParams settles.
ParamsSettle ==
    /\ ev.pc = "paramsHook"
    /\ LET x == ParamsSettled(ev, req)
       IN  /\ ev' = x.ev
           /\ req' = x.req
           /\ returned' = Record(x.ev)
    /\ UNCHANGED <<namespaces, policy, validator, trail, api, matching, context>>

\* The matcher resumes after `await extractParams(...)`.
RunValidations ==
    /\ ev.pc = "extract"
    /\ ev' = LaunchTasks(ev)
    /\ returned' = Record(ev')
    /\ UNCHANGED <<namespaces, policy, req, validator, trail, api, matching, context>>

\* The validation awaited by the sequential loop settles.
SeqSettle ==
    /\ ev.pc = "seq"
    /\ ev' = SeqSettled(ev)
    /\ returned' = Record(ev')
    /\ UNCHANGED <<namespaces, policy, req, validator, trail, api, matching, context>>

\* A validation launched in parallel settles.
ParSettle(k) ==
    /\ ev.runParallel
    /\ ev.calls[k] = "pending"
    /\ ev' = ParSettled(ev, k)
    /\ returned' = IF Finished(ev) THEN returned ELSE Record(ev')
    /\ UNCHANGED <<namespaces, policy, req, validator, trail, api, matching, context>>

\* The evaluation is over and its calls have settled: the next request.
NextRequest ==
    /\ Finished(ev)
    /\ \A k \in DOMAIN ev.calls : ev.calls[k] # "pending"
    /\ ev' = IdleEval
    /\ req' = FreshRequest
    /\ UNCHANGED <<namespaces, policy, returned, validator, trail, api, matching, context>>

Next ==
    \/ \E par \in BOOLEAN : Validate(par)
    \/ RunValidations
    \/ SeqSettle
    \/ \E k \in DOMAIN ev.calls : ParSettle(k)
    \/ NextRequest

Spec == Init /\ [][Next]_vars

----------------------------------------------------------------------------
\* Evaluation against providers that declare parameters and hooks.

\* Policies over the schemes 'user' and 'admin', in the global namespace,
\* in ns1, and in a namespace nothing is registered in.
HookPolicies ==
    {[scheme |-> s, namespaceArg |-> n, method |-> m, names |-> t] :
        s \in {"user", "admin"}, n \in {"", "ns1", "ns2"},
        m \in {"allOf", "anyOf"}, t \in SeqsUpTo({"A", "B"}, MaxTargets)}

\* The provider is registered as 'user' in the global namespace and as
\* 'admin' in ns1.
InitHooks ==
    /\ \E outA \in {"true", "throw"}, outB \in {"true", "explain"},
          before \in HookBehaviours, params \in HookBehaviours :
          LET p == HookedProvider(outA, outB, before, params)
              r1 == Register(InitialNamespaces, p, "user", "")
              r2 == Register(r1.namespaces, p, "admin", "ns1")
          IN  namespaces = r2.namespaces
    /\ policy \in HookPolicies
    /\ ev = IdleEval
    /\ req = FreshRequest
    /\ returned = {}
    /\ validator = ValidatorCreate("", "")
    /\ trail = NoTrail
    /\ api = NoApi
    /\ matching = NoMatching
    /\ context = NoContext

NextHooks ==
    \/ \E par \in BOOLEAN : Validate(par)
    \/ BeforeSettle
    \/ ParamsSettle
    \/ RunValidations
    \/ SeqSettle
    \/ \E k \in DOMAIN ev.calls : ParSettle(k)
    \/ NextRequest

SpecHooks == InitHooks /\ [][NextHooks]_vars

----------------------------------------------------------------------------
\* The builder: calls made on one proxy returned by Permissions.for.

\* Values handed to a parameter setter: the three string forms that resolve,
\* a string with none of the prefixes, an object carrying a literal, a number.
SetterValues ==
    { DefString("?", <<"id">>), DefString("$", <<"tok">>),
      DefString("req.", <<"auth", "user">>), DefString("", <<"id">>),
      LiteralWrapper("lit"), NumberValue }

\* proxy[property](...args) as its caller sees it.
Call(property, args) ==
    LET r == ProxyCall(validator, property, args)
    IN  /\ validator' = r.validator
        /\ trail' =
              [ last |-> [ property |-> property, args |-> args, threw |-> r.threw,
                           error |-> r.error, returned |-> r.returned,
                           pre |-> validator ],
                prev |-> [ compile |-> trail.last.property = "compile",
                           desc |-> trail.last.returned.desc ],
                terminal |-> IF trail.terminal.property = "none"
                                /\ property \in {"all", "any", "allOf", "anyOf"}
                             THEN [ property |-> property, threw |-> r.threw,
                                    args |-> IF r.threw THEN <<>> ELSE args ]
                             ELSE trail.terminal,
                overrides |-> IF property \in ParamNames /\ ~r.threw
                              THEN Put(trail.overrides, property, args[1])
                              ELSE trail.overrides,
                parallel |-> trail.parallel \/ (property = "parallel" /\ ~r.threw) ]
        /\ UNCHANGED <<namespaces, policy, ev, req, returned, api, matching, context>>

CallAll == Call("all", <<>>)

CallAny == Call("any", <<>>)

CallAllOf == \E names \in NameLists : Call("allOf", names)

CallAnyOf == \E names \in NameLists : Call("anyOf", names)

CallParallel == Call("parallel", <<>>)

SetParameter ==
    \E property \in ParamNames, args \in {<<>>} \cup {<<x>> : x \in SetterValues} :
        Call(property, args)

CallCompile == Call("compile", <<>>)

\* One builder, as Permissions.for('user'[, 'ns1']) returns it.
InitBuilder ==
    /\ namespaces = InitialNamespaces
    /\ policy = [scheme |-> "user", namespaceArg |-> "", method |-> "all", names |-> <<>>]
    /\ ev = IdleEval
    /\ req = FreshRequest
    /\ returned = {}
    /\ \E n \in NamespaceArgs : validator = PermissionsFor("user", n)
    /\ trail = NoTrail
    /\ api = NoApi
    /\ matching = NoMatching
    /\ context = NoContext

NextBuilder ==
    \/ CallAll
    \/ CallAny
    \/ CallAllOf
    \/ CallAnyOf
    \/ CallParallel
    \/ SetParameter
    \/ CallCompile

SpecBuilder == InitBuilder /\ [][NextBuilder]_vars

----------------------------------------------------------------------------
\* The calls of main.js on the provider store and the compound constructors.

BooleanValue ==
    [ type |-> "boolean", prefix |-> "", rest |-> <<>>,
      hasValue |-> FALSE, value |-> "false" ]

\* A provider with members of every sort: the four lifecycle names as
\* functions, validations, and members that are not functions.
FullProvider ==
    [ type      |-> "object",
      keys      |-> <<"potet", "before", "_params", "after", "note",
                      "params", "notReserved", "error">>,
      fns       |-> [m \in {"potet", "before", "after", "params",
                            "notReserved", "error"} |-> "true"],
      _parallel |-> "undefined",
      _params   |-> << [name |-> "id",    value |-> DefString("?", <<"id">>)],
                       [name |-> "token", value |-> DefString("$", <<"token">>)],
                       [name |-> "user",  value |-> DefString("req.", <<"user">>)] >> ]

\* What is passed where a provider is expected and is not an object.
NotAnObject(type) ==
    [ type |-> type, keys |-> <<>>, fns |-> EmptyMap,
      _parallel |-> "undefined", _params |-> <<>> ]

\* A provider whose _params holds the given default after a good one.
ProviderWithParam(def) ==
    [ Provider("true", "false", "undefined") EXCEPT
        !.keys = <<"_params", "A", "B">>,
        !._params = << [name |-> "id",  value |-> DefString("?", <<"id">>)],
                       [name |-> "bad", value |-> def],
                       [name |-> "worse", value |-> NumberValue] >> ]

RegistryProviders ==
    { Provider("true", "false", "undefined"), FullProvider,
      NotAnObject("null"), NotAnObject("string"),
      ProviderWithParam(DefString("", <<"id">>)),
      ProviderWithParam(BooleanValue) }

RegistryNames == {"user", "admin"}

\* The argument lists handed to the compound constructors.
ValidatorLists ==
    LET n1 == [PermissionsNone EXCEPT !.ref = "n1"]
        n2 == [PermissionsNone EXCEPT !.ref = "n2"]
        c  == [PermissionsAnyOf(<<n2, n1>>).returned EXCEPT !.ref = "c"]
    IN  { <<>>, <<n1>>, <<c>>, <<n1, n2>>, <<n2, n1>>, <<n1, n1>>,
          <<c, n1>>, <<n1, c, n2>> }

ApiKey(namespaceArg, name) ==
    <<IF namespaceArg = "" THEN "global" ELSE namespaceArg, name>>

ApiCalled(call, held) ==
    api' = [ last |-> call,
             prev |-> IF api.last.op = "unregister"
                      THEN [ op |-> api.last.op, name |-> api.last.name,
                             namespaceArg |-> api.last.namespaceArg,
                             found |-> api.last.found ]
                      ELSE NoApi.prev,
             held |-> held, heldPre |-> api.held ]

\* Permissions.register(provider, name, namespace)
CallRegister ==
    \E provider \in RegistryProviders, name \in RegistryNames,
       namespaceArg \in NamespaceArgs :
        LET r == Register(namespaces, provider, name, namespaceArg)
        IN  /\ namespaces' = r.namespaces
            /\ ApiCalled([NoApiCall EXCEPT !.op = "register",
                              !.provider = provider, !.name = name,
                              !.namespaceArg = namespaceArg,
                              !.threw = r.threw, !.error = r.error,
                              !.pre = namespaces],
                         IF r.threw THEN api.held
                         ELSE Put(api.held, ApiKey(namespaceArg, name),
                                  provider))
            /\ UNCHANGED <<policy, ev, req, returned, validator, trail,
                           matching, context>>

\* Permissions.unregister(name, namespace)
CallUnregister ==
    \E name \in RegistryNames, namespaceArg \in NamespaceArgs :
        LET r == Unregister(namespaces, name, namespaceArg)
        IN  /\ namespaces' = r.namespaces
            /\ ApiCalled([NoApiCall EXCEPT !.op = "unregister",
                              !.name = name, !.namespaceArg = namespaceArg,
                              !.found = r.found, !.res = r.res,
                              !.pre = namespaces],
                         Remove(api.held, ApiKey(namespaceArg, name)))
            /\ UNCHANGED <<policy, ev, req, returned, validator, trail,
                           matching, context>>

\* Permissions.allOf(...validatorList) / Permissions.anyOf(...validatorList)
CallCompose(method) ==
    \E validatorList \in ValidatorLists :
        LET r == IF method = "allOf" THEN PermissionsAllOf(validatorList)
                 ELSE PermissionsAnyOf(validatorList)
        IN  /\ ApiCalled([NoApiCall EXCEPT !.op = method,
                              !.list = validatorList,
                              !.threw = r.threw, !.error = r.error,
                              !.returned = r.returned,
                              !.pre = namespaces],
                         api.held)
            /\ UNCHANGED <<namespaces, policy, ev, req, returned, validator,
                           trail, matching, context>>

CallPermissionsAllOf == CallCompose("allOf")

CallPermissionsAnyOf == CallCompose("anyOf")

InitApi ==
    /\ namespaces = InitialNamespaces
    /\ policy \in {NoChain}
    /\ ev = IdleEval
    /\ req = FreshRequest
    /\ returned = {}
    /\ validator = ValidatorCreate("", "")
    /\ trail = NoTrail
    /\ api = NoApi
    /\ matching = NoMatching
    /\ context = NoContext

NextApi ==
    \/ CallRegister
    \/ CallUnregister
    \/ CallPermissionsAllOf
    \/ CallPermissionsAnyOf

SpecApi == InitApi /\ [][NextApi]_vars

----------------------------------------------------------------------------
\* The matcher (matcher.js): dispatch, and compound validators.

\* What Permissions.for(...)...  has returned: a builder proxy.
Builder(ref, chain, par) ==
    [ ref |-> ref, kind |-> "builder", chain |-> chain, par |-> par,
      method |-> "", target |-> <<>> ]

\* The Validator object behind a builder proxy: its chain may have stopped
\* before the match method.
BuilderOf(v) ==
    IF v.chain.method = ""
    THEN LET v0 == PermissionsFor(v.chain.scheme, v.chain.namespaceArg)
         IN  IF v.par THEN ProxyCall(v0, "parallel", <<>>).validator ELSE v0
    ELSE BuildValidator(v.chain, v.par)

\* matcher: a validator that is no object throws; one with a compile
\* function goes to matchTrueValidator; an object with a method string (and
\* no schema) goes to matchCompoundValidator.
MatcherRoute(v) ==
    IF v.kind \notin {"builder", "object"} THEN "throw"
    ELSE IF v.kind = "builder" THEN "true"
    ELSE "compound"

\* A variant without the NOP case.
CompoundRouteWithoutNop(v) ==
    IF Len(v.target) < 2 THEN "TooFewTargets"
    ELSE IF v.method \notin {"allOf", "anyOf"} THEN "InvalidCompoundMethod"
    ELSE "fan"

\* matchCompoundValidator up to its fan-out: "nop", the error thrown for a
\* target shorter than two or a method other than allOf / anyOf, or "fan".
CompoundRoute(v) ==
    IF v.method = "NOP" THEN "nop"
    ELSE IF Len(v.target) < 2 THEN "TooFewTargets"
    ELSE IF v.method \notin {"allOf", "anyOf"} THEN "InvalidCompoundMethod"
    ELSE "fan"

\* Does matcher(req, v) fan out into matcher calls on v's targets?
FansOut(v) == MatcherRoute(v) = "compound" /\ CompoundRoute(v) = "fan"

\* A variant that keeps a validator given twice.
CompoundTargetsKeepingDuplicates(v) == v.target

\* validator.target.filter((t, i, arr) => arr.indexOf(t) === i)
CompoundTargets(v) == Dedup(v.target)

\* The matcher calls below matcher(req, v) that do not fan out, in the
\* order they are made: targets.map(v => matcher(req, v)) runs each call up
\* to its first await before it makes the next.  path is where the call
\* sits: the indices into the filtered targets from the root down.
RECURSIVE MatcherCalls(_, _)
MatcherCalls(v, path) ==
    IF ~FansOut(v) THEN << [path |-> path, validator |-> v] >>
    ELSE LET targets == CompoundTargets(v)
             F[i \in 0..Len(targets)] ==
                 IF i = 0 THEN <<>>
                 ELSE F[i-1] \o MatcherCalls(targets[i], Append(path, i))
         IN  F[Len(targets)]

\* The result of the no-op validator; ':NOP' has an empty scheme.
NopResults ==
    [ hasPassed |-> TRUE, passedValidations |-> << <<"", "NOP">> >>,
      failedValidations |-> <<>>, thrownErrors |-> <<>> ]

\* One matcher call that does not fan out, up to its first await or its
\* end, on the request r: [ev, req].
MatcherStart(v, nss, r) ==
    IF MatcherRoute(v) = "throw"
    THEN [ev |-> Reject(IdleEval, [err |-> "NotAValidator", by |-> v.kind]),
          req |-> r]
    ELSE IF MatcherRoute(v) = "true"
    THEN LET e == MatchTrueValidator(ValidatorCompile(BuilderOf(v)), nss)
         IN  IF e.pc = "extract" THEN ExtractParams(e, r)
             ELSE [ev |-> e, req |-> r]
    ELSE IF CompoundRoute(v) = "nop"
    THEN [ev |-> [IdleEval EXCEPT !.pc = "resolved", !.results = NopResults],
          req |-> r]
    ELSE [ev |-> Reject(IdleEval, [err |-> CompoundRoute(v), by |-> v.method]),
          req |-> r]

\* All the calls started one after the other: [evs, req].
StartCalls(calls, nss, r) ==
    LET F[i \in 0..Len(calls)] ==
            IF i = 0 THEN [evs |-> <<>>, req |-> r]
            ELSE LET x == MatcherStart(calls[i].validator, nss, F[i-1].req)
                 IN  [evs |-> Append(F[i-1].evs, x.ev), req |-> x.req]
    IN  F[Len(calls)]

\* How many promise hops lie between a rejection made while the calls are
\* started and the Promise.all of the root: a throw of matcher itself
\* rejects the promise in the array, a throw of matchTrueValidator or
\* matchCompoundValidator reaches it through `return await`, and every
\* compound level adds its own Promise.all and two awaits.
Hops(call) ==
    (IF MatcherRoute(call.validator) = "throw" THEN 0 ELSE 1)
    + 3 * (Len(call.path) - 1)

\* A variant in which a rejection made while the calls are started is lost.
FirstRejectedLost(calls, evs) == 0

\* Promise.all rejects with the first rejection it sees.  Of the calls
\* rejected when they were started, that is the one with the fewest hops,
\* the earliest call among equals.
FirstRejected(calls, evs) ==
    LET rejected == {i \in DOMAIN evs : evs[i].pc = "rejected"}
    IN  IF rejected = {} THEN 0
        ELSE CHOOSE i \in rejected :
                \A j \in rejected :
                    \/ Hops(calls[i]) < Hops(calls[j])
                    \/ Hops(calls[i]) = Hops(calls[j]) /\ i <= j

\* The result object of call i as matchTrueValidator built it: every entry
\* of failedValidations is an object of its own, obj standing for its
\* identity.
CallResults(evs, i) ==
    [ evs[i].results EXCEPT !.failedValidations =
        [ k \in DOMAIN @ |-> [ name |-> @[k].name,
                               explanation |-> @[k].explanation,
                               obj |-> <<i, k>> ] ] ]

\* [].concat(...validationResults.map(v => v[field]))
ConcatField(validationResults, field) ==
    LET F[i \in 0..Len(validationResults)] ==
            IF i = 0 THEN <<>> ELSE F[i-1] \o validationResults[i][field]
    IN  F[Len(validationResults)]

\* A variant of the merge that looks at no sub-result but the first.
MergeResultsOfFirst(method, validationResults) ==
    [ validationResults[1] EXCEPT
        !.hasPassed = validationResults[1].hasPassed ]

\* A variant of the merge that passes as soon as one sub-result passed,
\* whatever the method.
MergeResultsAnyPasses(method, validationResults) ==
    [ hasPassed |->
        \E i \in DOMAIN validationResults : validationResults[i].hasPassed,
      passedValidations |->
        Dedup(ConcatField(validationResults, "passedValidations")),
      failedValidations |->
        Dedup(ConcatField(validationResults, "failedValidations")),
      thrownErrors |-> ConcatField(validationResults, "thrownErrors") ]

\* matchCompoundValidator after its await: the three lists concatenated,
\* the passed and failed ones filtered by indexOf, and hasPassed by every /
\* some over the sub-results.
MergeResults(method, validationResults) ==
    [ hasPassed |->
        IF method = "allOf"
        THEN \A i \in DOMAIN validationResults : validationResults[i].hasPassed
        ELSE \E i \in DOMAIN validationResults : validationResults[i].hasPassed,
      passedValidations |->
        Dedup(ConcatField(validationResults, "passedValidations")),
      failedValidations |->
        Dedup(ConcatField(validationResults, "failedValidations")),
      thrownErrors |-> ConcatField(validationResults, "thrownErrors") ]

\* Where the call at a path sits among the calls.
CallAt(calls, path) == CHOOSE i \in DOMAIN calls : calls[i].path = path

\* The result matcher(req, v) resolves with once every call below it has
\* resolved.
RECURSIVE MatcherResults(_, _, _, _)
MatcherResults(v, path, calls, evs) ==
    IF ~FansOut(v) THEN CallResults(evs, CallAt(calls, path))
    ELSE LET targets == CompoundTargets(v)
         IN  MergeResults(v.method,
                 [ i \in DOMAIN targets |->
                     MatcherResults(targets[i], Append(path, i), calls, evs) ])

\* What the caller of validate(req, root) has got so far.
MatchingOutcome(m) ==
    IF m.pc = "idle" \/ m.calls = <<>> THEN [kind |-> "none", error |-> NoError]
    ELSE IF m.first # 0
    THEN [kind |-> "failure", error |-> m.evs[m.first].error]
    ELSE IF \A i \in DOMAIN m.evs : m.evs[i].pc = "resolved"
    THEN [kind |-> "result", error |-> NoError]
    ELSE [kind |-> "pending", error |-> NoError]

\* The validators of the routes under test.
Chain(scheme, namespaceArg, method, names) ==
    [ scheme |-> scheme, namespaceArg |-> namespaceArg, method |-> method,
      names |-> names ]

Compound(ref, method, validatorList) ==
    [ ref |-> ref, kind |-> "object", chain |-> NoChain, par |-> FALSE,
      method |-> method, target |-> validatorList ]

CompoundValidators ==
    LET uA    == Builder("uA", Chain("user", "", "allOf", <<"A">>), FALSE)
        uB    == Builder("uB", Chain("user", "", "anyOf", <<"B">>), FALSE)
        uAB   == Builder("uAB", Chain("user", "", "allOf", <<"A", "B">>), TRUE)
        aA    == Builder("aA", Chain("admin", "ns1", "allOf", <<"A">>), FALSE)
        open  == Builder("open", Chain("user", "", "", <<>>), FALSE)
        ghost == Builder("ghost", Chain("ghost", "", "allOf", <<"A">>), FALSE)
        lost  == Builder("lost", Chain("user", "ns2", "anyOf", <<"A">>), FALSE)
        nop   == [PermissionsNone EXCEPT !.ref = "nop"]
        undef == [PermissionsNone EXCEPT !.ref = "undef", !.kind = "undefined",
                                         !.method = ""]
        short == Compound("short", "allOf", <<uA>>)
        odd   == Compound("odd", "oneOf", <<uA, uB>>)
        of(m, list) ==
            Compound("root", m, list)
        in(m, list) ==
            Compound("inner", m, list)
    IN  {nop, short}
        \cup { of(m, list) :
                 m \in {"allOf", "anyOf"},
                 list \in { <<uA, uB>>, <<uA, uAB>>, <<uA, uA>>, <<uA, aA>>,
                            <<aA, uB, nop>>, <<uB, open>>, <<uB, ghost>>,
                            <<lost, uB>>, <<uB, undef>>, <<uB, short>>,
                            <<odd, uB>>, <<ghost, aA>>, <<ghost, undef>> } }
        \cup { of(m, <<uA, in(n, list)>>) :
                 m \in {"allOf", "anyOf"}, n \in {"allOf", "anyOf"},
                 list \in { <<uB, uAB>>, <<ghost, uB>> } }
        \cup { of(m, <<in("anyOf", <<undef, uB>>), ghost>>) :
                 m \in {"allOf", "anyOf"} }

\* 'user' is registered in the global namespace, without hooks, and
\* 'admin' in ns1, with a before hook and perhaps a params hook.
InitCompound ==
    /\ \E outA \in {"true", "false", "throw"}, outB \in {"true", "explain"},
          before \in {"returns", "throws"}, params \in {"absent", "returns"} :
          LET r1 == Register(InitialNamespaces,
                             Provider(outA, outB, "undefined"), "user", "")
              r2 == Register(r1.namespaces,
                             HookedProvider("true", "true", before, params),
                             "admin", "ns1")
          IN  namespaces = r2.namespaces
    /\ policy \in {NoChain}
    /\ ev = IdleEval
    /\ req = FreshRequest
    /\ returned = {}
    /\ validator = ValidatorCreate("", "")
    /\ trail = NoTrail
    /\ api = NoApi
    /\ matching = NoMatching
    /\ context = NoContext

\* Permissions.validate(req, validator) with one of the validators: every
\* matcher call below it is started.
ValidateCompound ==
    /\ matching.pc = "idle"
    /\ \E root \in CompoundValidators :
          LET calls == MatcherCalls(root, <<>>)
              x == StartCalls(calls, namespaces, req)
          IN  /\ matching' = [ pc |-> "running", root |-> root,
                               calls |-> calls, evs |-> x.evs,
                               first |-> FirstRejected(calls, x.evs) ]
              /\ req' = x.req
    /\ UNCHANGED <<namespaces, policy, ev, returned, validator, trail, api, context>>

\* Call i moves on to e; a rejection is the first if none came before.
CallMoves(i, e) ==
    matching' = [ matching EXCEPT
                    !.evs[i] = e,
                    !.first = IF @ = 0 /\ e.pc = "rejected" THEN i ELSE @ ]

\* The before hook awaited by call i settles.
CallBeforeSettle(i) ==
    /\ matching.evs[i].pc = "beforeHook"
    /\ LET x == BeforeSettled(matching.evs[i], req)
       IN  CallMoves(i, x.ev) /\ req' = x.req
    /\ UNCHANGED <<namespaces, policy, ev, returned, validator, trail, api, context>>

\* The params hook awaited by call i settles.
CallParamsSettle(i) ==
    /\ matching.evs[i].pc = "paramsHook"
    /\ LET x == ParamsSettled(matching.evs[i], req)
       IN  CallMoves(i, x.ev) /\ req' = x.req
    /\ UNCHANGED <<namespaces, policy, ev, returned, validator, trail, api, context>>

\* Call i resumes after `await extractParams(...)`.
CallRunValidations(i) ==
    /\ matching.evs[i].pc = "extract"
    /\ CallMoves(i, LaunchTasks(matching.evs[i]))
    /\ UNCHANGED <<namespaces, policy, ev, req, returned, validator, trail,
                   api, context>>

\* The validation awaited by the sequential loop of call i settles.
CallSeqSettle(i) ==
    /\ matching.evs[i].pc = "seq"
    /\ CallMoves(i, SeqSettled(matching.evs[i]))
    /\ UNCHANGED <<namespaces, policy, ev, req, returned, validator, trail,
                   api, context>>

\* A validation launched in parallel by call i settles.
CallParSettle(i, k) ==
    /\ matching.evs[i].runParallel
    /\ matching.evs[i].calls[k] = "pending"
    /\ CallMoves(i, ParSettled(matching.evs[i], k))
    /\ UNCHANGED <<namespaces, policy, ev, req, returned, validator, trail,
                   api, context>>

\* Every call is over and has nothing in flight: the next evaluation, of
\* the same request or of a new one.
NextCompoundRequest ==
    /\ matching.pc = "running"
    /\ \A i \in DOMAIN matching.evs :
          /\ Finished(matching.evs[i])
          /\ \A k \in DOMAIN matching.evs[i].calls :
                matching.evs[i].calls[k] # "pending"
    /\ matching' = NoMatching
    /\ req' \in {req, FreshRequest}
    /\ UNCHANGED <<namespaces, policy, ev, returned, validator, trail, api, context>>

NextCompound ==
    \/ ValidateCompound
    \/ \E i \in DOMAIN matching.evs : CallBeforeSettle(i)
    \/ \E i \in DOMAIN matching.evs : CallParamsSettle(i)
    \/ \E i \in DOMAIN matching.evs : CallRunValidations(i)
    \/ \E i \in DOMAIN matching.evs : CallSeqSettle(i)
    \/ \E i \in DOMAIN matching.evs :
          \E k \in DOMAIN matching.evs[i].calls : CallParSettle(i, k)
    \/ NextCompoundRequest

SpecCompound == InitCompound /\ [][NextCompound]_vars

----------------------------------------------------------------------------
\* Evaluations made one after the other on one request, for providers that
\* export, with parameter overrides and with targets of every sort.

\* 'user' in the global namespace: a before hook, a params hook that
\* exports, two parameter defaults.
UserProvider ==
    [ type      |-> "object",
      keys      |-> <<"_params", "before", "params", "A", "B">>,
      fns       |-> [m \in {"before", "params", "A", "B"} |->
                        CASE m = "before" -> "undefined"
                          [] m = "params" -> "export x"
                          [] m = "A" -> "true"
                          [] m = "B" -> "false"],
      _parallel |-> "undefined",
      _params   |-> << [name |-> "id",   value |-> DefString("?", <<"id">>)],
                       [name |-> "user", value |-> DefString("req.", <<"auth", "user">>)] >> ]

\* 'user' in ns1: another provider, parallel by default.
UserProviderNs1 ==
    [ type      |-> "object",
      keys      |-> <<"_parallel", "_params", "params", "A", "B">>,
      fns       |-> [m \in {"params", "A", "B"} |->
                        IF m = "params" THEN "export y" ELSE "true"],
      _parallel |-> "true",
      _params   |-> << [name |-> "id", value |-> DefString("$", <<"tok">>)] >> ]

\* 'admin' in the global namespace: a before hook that exports,
\* validations that fail, parallel by default.
AdminProvider ==
    [ type      |-> "object",
      keys      |-> <<"_parallel", "_params", "before", "params", "A", "B">>,
      fns       |-> [m \in {"before", "params", "A", "B"} |->
                        CASE m = "before" -> "export z"
                          [] m = "params" -> "undefined"
                          [] OTHER -> "false"],
      _parallel |-> "true",
      _params   |-> << [name |-> "ip", value |-> DefString("req.", <<"ip">>)] >> ]

\* Definitions a builder's setter takes, for what is in the request and
\* for what is not.
OverrideValues ==
    { DefString("?", <<"id">>), DefString("?", <<"nope">>),
      DefString("$", <<"tok">>), DefString("$", <<"nope">>),
      DefString("req.", <<"ip">>), DefString("req.", <<"auth">>),
      DefString("req.", <<"auth", "user">>),
      DefString("req.", <<"auth", "nope", "deep">>),
      DefString("req.", <<"ip", "x">>),
      DefString("req.", <<"nope", "x", "y">>) }

\* The policies of the routes: the builder chain with its setter calls,
\* and the parallel field of the descriptor handed to the matcher.
ContextPolicies ==
    { [ scheme |-> k[1], namespaceArg |-> k[2], method |-> "allOf",
        names |-> <<"A", "B">>, overrides |-> <<>>, parallel |-> par ] :
        k \in {<<"user", "">>, <<"user", "ns1">>, <<"admin", "">>},
        par \in {"undefined", "true", "false"} }
    \cup
    { [ scheme |-> "user", namespaceArg |-> "", method |-> "allOf",
        names |-> <<"A">>, overrides |-> << [name |-> "id", value |-> d] >>,
        parallel |-> "undefined" ] :
        d \in OverrideValues }
    \cup
    { [ scheme |-> "user", namespaceArg |-> "", method |-> "anyOf",
        names |-> <<"B", "A">>, overrides |-> o, parallel |-> "undefined" ] :
        o \in { << [name |-> "extra", value |-> DefString("?", <<"id">>)] >>,
                << [name |-> "user", value |-> DefString("$", <<"tok">>)],
                   [name |-> "extra", value |-> DefString("req.", <<"ip">>)] >> } }
    \cup
    { [ scheme |-> "user", namespaceArg |-> "", method |-> m,
        names |-> t, overrides |-> <<>>, parallel |-> "undefined" ] :
        m \in {"allOf", "anyOf"},
        t \in { <<"before">>, <<"A", "before">>, <<"after", "A">> } }

\* The builder of a policy: for(...), the setters, parallel(), the method.
ContextBuilder(p) ==
    LET F[i \in 0..Len(p.overrides)] ==
            IF i = 0 THEN PermissionsFor(p.scheme, p.namespaceArg)
            ELSE ProxyCall(F[i-1], p.overrides[i].name,
                           <<p.overrides[i].value>>).validator
        v1 == F[Len(p.overrides)]
        v2 == IF p.parallel = "true"
              THEN ProxyCall(v1, "parallel", <<>>).validator ELSE v1
    IN  ProxyCall(v2, p.method, p.names).validator

\* What validator.compile() hands to matchTrueValidator.  The builder sets
\* parallel to true or leaves it out; parallel: false comes from an object
\* with a compile function of its own.
ContextDescriptor(p) ==
    LET d == ValidatorCompile(ContextBuilder(p))
    IN  IF p.parallel = "false" THEN [d EXCEPT !.parallel = "false"] ELSE d

InitContext ==
    /\ LET r1 == Register(InitialNamespaces, UserProvider, "user", "")
           r2 == Register(r1.namespaces, UserProviderNs1, "user", "ns1")
           r3 == Register(r2.namespaces, AdminProvider, "admin", "")
       IN  namespaces = r3.namespaces
    /\ policy \in ContextPolicies
    /\ ev = IdleEval
    /\ req = FreshRequest
    /\ returned = {}
    /\ validator = ValidatorCreate("", "")
    /\ trail = NoTrail
    /\ api = NoApi
    /\ matching = NoMatching
    /\ context = NoContext

\* The scheme entry read again from the store at every step, when the
\* store has one.
HeldSchemeReadAgain(e, nss) ==
    IF /\ e.desc.namespace \in DOMAIN nss
       /\ e.desc.scheme \in DOMAIN nss[e.desc.namespace]
    THEN nss[e.desc.namespace][e.desc.scheme]
    ELSE e.scheme

\* const scheme = namespace[validator.scheme]: the entry is read from the
\* store once, and what follows in the call works on that constant,
\* whatever the store nss holds by then.
HeldScheme(e, nss) == e.scheme

\* The evaluation moves on to x.ev, the request to x.req.  When it returns
\* a result, the exports it attached are noted for its (namespace, scheme).
ContextStep(x) ==
    /\ ev' = x.ev
    /\ req' = x.req
    /\ context' =
          IF x.ev.pc = "resolved" /\ ev.pc # "resolved"
          THEN [context EXCEPT !.exports =
                   Put(@, <<x.ev.desc.namespace, x.ev.desc.scheme>>,
                       x.ev.exports)]
          ELSE context
    /\ UNCHANGED <<namespaces, policy, returned, validator, trail, api,
                   matching>>

\* Permissions.validate(req, validator) with the policy's validator; what
\* the store holds for its key at this moment is noted.
ContextValidate ==
    /\ ev.pc = "idle"
    /\ LET d == ContextDescriptor(policy)
           e == MatchTrueValidator(d, namespaces)
           x == IF e.pc = "extract" THEN ExtractParams(e, req)
                ELSE [ev |-> e, req |-> req]
       IN  /\ ev' = x.ev
           /\ req' = x.req
           /\ context' = [context EXCEPT
                 !.held = IF /\ d.namespace \in DOMAIN namespaces
                             /\ d.scheme \in DOMAIN namespaces[d.namespace]
                          THEN namespaces[d.namespace][d.scheme]
                          ELSE NoScheme,
                 !.unregisteredAt = "never"]
    /\ UNCHANGED <<namespaces, policy, returned, validator, trail, api,
                   matching>>

ContextBeforeSettle ==
    /\ ev.pc = "beforeHook"
    /\ ContextStep(BeforeSettled(
          [ev EXCEPT !.scheme = HeldScheme(ev, namespaces)], req))

ContextParamsSettle ==
    /\ ev.pc = "paramsHook"
    /\ ContextStep(ParamsSettled(
          [ev EXCEPT !.scheme = HeldScheme(ev, namespaces)], req))

ContextRunValidations ==
    /\ ev.pc = "extract"
    /\ ContextStep([ ev  |-> LaunchTasks(
                               [ev EXCEPT !.scheme = HeldScheme(ev, namespaces)]),
                     req |-> req ])

ContextSeqSettle ==
    /\ ev.pc = "seq"
    /\ ContextStep([ ev  |-> SeqSettled(
                               [ev EXCEPT !.scheme = HeldScheme(ev, namespaces)]),
                     req |-> req ])

ContextParSettle(k) ==
    /\ ev.runParallel
    /\ ev.calls[k] = "pending"
    /\ ContextStep([ ev  |-> ParSettled(
                               [ev EXCEPT !.scheme = HeldScheme(ev, namespaces)], k),
                     req |-> req ])

\* The evaluation is over: the next policy is evaluated on the same request
\* (a later policy of the same route), or a new request comes in.
ContextNext ==
    /\ Finished(ev)
    /\ \A k \in DOMAIN ev.calls : ev.calls[k] # "pending"
    /\ ev' = IdleEval
    /\ policy' \in ContextPolicies
    /\ \/ /\ req' = req
          /\ context' = [context EXCEPT !.pre = req, !.held = NoScheme,
                                         !.unregisteredAt = "never"]
       \/ req' = FreshRequest /\ context' = NoContext
    /\ UNCHANGED <<namespaces, returned, validator, trail, api, matching>>

NextContext ==
    \/ ContextValidate
    \/ ContextBeforeSettle
    \/ ContextParamsSettle
    \/ ContextRunValidations
    \/ ContextSeqSettle
    \/ \E k \in DOMAIN ev.calls : ContextParSettle(k)
    \/ ContextNext

SpecContext == InitContext /\ [][NextContext]_vars

----------------------------------------------------------------------------
\* One evaluation at a time against a store that register and unregister
\* change while the evaluation waits.

InitLive ==
    /\ namespaces = Register(InitialNamespaces, UserProvider, "user", "").namespaces
    /\ policy \in { p \in ContextPolicies :
                      /\ p.scheme = "user" /\ p.namespaceArg = ""
                      /\ p.parallel # "false"
                      /\ p.names \in { <<"A", "B">>, <<"B", "A">> } }
    /\ ev = IdleEval
    /\ req = FreshRequest
    /\ returned = {}
    /\ validator = ValidatorCreate("", "")
    /\ trail = NoTrail
    /\ api = NoApi
    /\ matching = NoMatching
    /\ context = NoContext

\* Permissions.unregister('user') by other code of the application; where
\* the evaluation stood is noted.
LiveUnregister ==
    /\ LET r == Unregister(namespaces, "user", "")
       IN  /\ r.found
           /\ namespaces' = r.namespaces
    /\ context' = [context EXCEPT !.unregisteredAt = ev.pc]
    /\ UNCHANGED <<policy, ev, req, returned, validator, trail, api, matching>>

\* Permissions.register(provider, 'user') once the name is free.
LiveRegister(provider) ==
    /\ LET r == Register(namespaces, provider, "user", "")
       IN  /\ ~r.threw
           /\ namespaces' = r.namespaces
    /\ UNCHANGED <<policy, ev, req, returned, validator, trail, api, matching,
                   context>>

\* The evaluation is over: the route's policy is evaluated on the next
\* request.
LiveNext ==
    /\ Finished(ev)
    /\ \A k \in DOMAIN ev.calls : ev.calls[k] # "pending"
    /\ ev' = IdleEval
    /\ req' = FreshRequest
    /\ context' = NoContext
    /\ UNCHANGED <<namespaces, policy, returned, validator, trail, api,
                   matching>>

NextLive ==
    \/ ContextValidate
    \/ ContextBeforeSettle
    \/ ContextParamsSettle
    \/ ContextRunValidations
    \/ ContextSeqSettle
    \/ \E k \in DOMAIN ev.calls : ContextParSettle(k)
    \/ LiveUnregister
    \/ \E provider \in {UserProvider, AdminProvider} : LiveRegister(provider)
    \/ LiveNext

SpecLive == InitLive /\ [][NextLive]_vars

----------------------------------------------------------------------------
\* What the claims are stated over: the inputs of the evaluation (the policy
\* and the registered provider), not the matcher's intermediate values.

PolicyNamespace == IF policy.namespaceArg = "" THEN "global" ELSE policy.namespaceArg

PolicyEntry == namespaces[PolicyNamespace][policy.scheme]

\* What each function member of the addressed provider does.
Fns == PolicyEntry.provider.fns

\* The distinct validation names the policy targets, '*' standing for all
\* the validations of the provider.
DistinctTargets ==
    IF policy.method \in {"all", "any"} THEN Range(PolicyEntry.validations)
    ELSE (Range(policy.names) \ {"*"})
         \cup (IF "*" \in Range(policy.names) THEN Range(PolicyEntry.validations) ELSE {})

\* The target's call returns a value (it exists and does not throw).
Returns(t) == t \in DOMAIN Fns /\ Fns[t] # "throw"

NoTargetThrows == \A t \in DistinctTargets : Returns(t)

\* [namespace:]scheme:method, the namespace omitted for 'global'.
ExpectedName(t) ==
    IF PolicyNamespace = "global" THEN <<policy.scheme, t>>
    ELSE <<PolicyNamespace, policy.scheme, t>>

\* The error a target's call ends with, when it does.
ErrorOf(t) ==
    IF t \in DOMAIN Fns THEN [err |-> "thrown", by |-> t]
    ELSE [err |-> "TypeError", by |-> t]

Occurrences(s, x) == Cardinality({i \in DOMAIN s : s[i] = x})

FailedNames(results) ==
    [i \in DOMAIN results.failedValidations |-> results.failedValidations[i].name]

Settled(status) == status \in {"fulfilled", "rejected"}

\* C1: for an allOf/anyOf policy in which no validation throws, the
\* evaluation returns a Result whose hasPassed is, for allOf, "every distinct
\* target returned exactly true" and, for anyOf, "some target returned
\* exactly true".
C1_HasPassedArithmetic ==
    (Finished(ev) /\ policy.method \in {"allOf", "anyOf"} /\ NoTargetThrows) =>
        /\ ev.pc = "resolved"
        /\ ev.results.hasPassed =
              IF policy.method = "allOf"
              THEN \A t \in DistinctTargets : Fns[t] = "true"
              ELSE \E t \in DistinctTargets : Fns[t] = "true"
        /\ (policy.method = "allOf" =>
              (ev.results.hasPassed <=>
                  (Len(ev.results.passedValidations) = Cardinality(DistinctTargets)
                   /\ Len(ev.results.failedValidations) = 0)))

\* An anyOf policy passed although one of its two targets failed.
C1_Witness ==
    /\ ev.pc = "resolved" /\ policy.method = "anyOf" /\ NoTargetThrows
    /\ Cardinality(DistinctTargets) = 2
    /\ ev.results.hasPassed
    /\ Len(ev.results.failedValidations) = 1

\* C2: every Result returned for a simple policy with a non-empty
\* thrownErrors has hasPassed = false.
C2_ThrownForcesFail ==
    /\ (ev.pc = "resolved" /\ Len(ev.results.thrownErrors) > 0) => ~ev.results.hasPassed
    /\ \A r \in returned :
          (r.kind = "result" /\ Len(r.results.thrownErrors) > 0) => ~r.results.hasPassed

\* An anyOf Result with a thrown error next to a passed validation.
C2_Witness ==
    /\ ev.pc = "resolved" /\ policy.method = "anyOf"
    /\ Len(ev.results.thrownErrors) > 0
    /\ Len(ev.results.passedValidations) > 0
    /\ ~ev.results.hasPassed

\* C3: evaluating a builder finalized with all() / any() against a registered
\* provider returns a Result, having run every validation of the provider
\* once, with hasPassed following the all / any arithmetic.
C3_AllAnyEvaluate ==
    (Finished(ev) /\ policy.method \in {"all", "any"}) =>
        /\ ev.pc = "resolved"
        /\ \A m \in Range(PolicyEntry.validations) : ev.ncalls[m] = 1
        /\ NoTargetThrows =>
              ev.results.hasPassed =
                  IF policy.method = "all"
                  THEN \A t \in DistinctTargets : Fns[t] = "true"
                  ELSE \E t \in DistinctTargets : Fns[t] = "true"

\* C4: in every Result, each passed / failed entry carries the qualified
\* name of a target whose own call produced that outcome.
C4_Attribution ==
    ev.pc = "resolved" =>
        /\ \A i \in DOMAIN ev.results.passedValidations :
              \E t \in Range(ev.targets) :
                  /\ ev.results.passedValidations[i] = ExpectedName(t)
                  /\ Returns(t) /\ Fns[t] = "true"
        /\ \A i \in DOMAIN ev.results.failedValidations :
              \E t \in Range(ev.targets) :
                  /\ ev.results.failedValidations[i].name = ExpectedName(t)
                  /\ Returns(t) /\ Fns[t] # "true"
                  /\ ev.results.failedValidations[i].explanation =
                        (IF Fns[t] = "false" THEN "undefined" ELSE Fns[t])

\* C5: in concurrent mode the Result holds every non-rejecting target in
\* passedValidations or failedValidations and every rejection in thrownErrors.
C5_ParallelCollectsAll ==
    (ev.pc = "resolved" /\ ev.runParallel) =>
        \A t \in Range(ev.targets) :
            IF Returns(t)
            THEN ExpectedName(t) \in Range(ev.results.passedValidations)
                                     \cup Range(FailedNames(ev.results))
            ELSE ErrorOf(t) \in Range(ev.results.thrownErrors)

\* C6: in sequential mode the targets are invoked in target order, a call
\* starts only when the previous one has settled, and a call that throws is
\* recorded in thrownErrors while every later target is still invoked.
C6_SequentialOrder ==
    ~ev.runParallel =>
        /\ ev.started = [k \in 1..Len(ev.started) |-> k]
        /\ \A k \in DOMAIN ev.calls :
              /\ (ev.calls[k] # "notStarted") <=> (k <= Len(ev.started))
              /\ (ev.calls[k] = "pending") => (k = Len(ev.started))
              /\ (ev.calls[k] = "rejected") =>
                    ErrorOf(ev.targets[k]) \in Range(ev.results.thrownErrors)
        /\ ev.pc = "resolved" =>
              /\ \A k \in DOMAIN ev.calls : Settled(ev.calls[k])
              /\ Len(ev.results.thrownErrors) =
                    Cardinality({k \in DOMAIN ev.calls : ev.calls[k] = "rejected"})

\* A sequential evaluation whose first call threw and whose second call ran
\* and returned.
C6_Witness ==
    /\ ev.pc = "resolved" /\ ~ev.runParallel
    /\ Len(ev.targets) = 2
    /\ ev.calls = <<"rejected", "fulfilled">>
    /\ ev.targets[1] \in DOMAIN Fns /\ Fns[ev.targets[1]] = "throw"
    /\ ev.results.thrownErrors = <<[err |-> "thrown", by |-> ev.targets[1]]>>

\* C7: a Result is never returned while a validation call launched by the
\* evaluation is still pending.
C7_NoPendingAtResult ==
    ev.pc = "resolved" => \A k \in DOMAIN ev.calls : ev.calls[k] # "pending"

\* C8: when no validation throws, every distinct target is invoked exactly
\* once and lands in exactly one list: passedValidations iff it returned
\* true, else failedValidations with the returned value as explanation (no
\* explanation for a boolean).
C8_EachTargetOnce ==
    (ev.pc = "resolved" /\ NoTargetThrows) =>
        /\ \A m \in DOMAIN ev.ncalls :
              ev.ncalls[m] = IF m \in DistinctTargets THEN 1 ELSE 0
        /\ Len(ev.results.passedValidations) + Len(ev.results.failedValidations)
              = Cardinality(DistinctTargets)
        /\ \A t \in DistinctTargets :
              IF Fns[t] = "true"
              THEN /\ Occurrences(ev.results.passedValidations, ExpectedName(t)) = 1
                   /\ Occurrences(FailedNames(ev.results), ExpectedName(t)) = 0
              ELSE /\ Occurrences(ev.results.passedValidations, ExpectedName(t)) = 0
                   /\ Occurrences(ev.results.failedValidations,
                          [ name |-> ExpectedName(t),
                            explanation |-> IF Fns[t] = "false" THEN "undefined"
                                            ELSE Fns[t] ]) = 1
                   /\ Occurrences(FailedNames(ev.results), ExpectedName(t)) = 1

\* A Result for a target list naming the same validation twice, with one
\* entry passed and one failed with an explanation.
C8_Witness ==
    /\ ev.pc = "resolved" /\ NoTargetThrows
    /\ Len(policy.names) > Cardinality(Range(policy.names))
    /\ ev.ncalls = [m \in {"A", "B"} |-> IF m = "A" THEN 1 ELSE 0]
    /\ ev.results.failedValidations =
          <<[name |-> ExpectedName("A"), explanation |-> "explain"]>>

SameOutcome(r1, r2) ==
    r1.kind = r2.kind /\ r1.results = r2.results /\ r1.error = r2.error

\* C9: with a provider whose default mode is sequential and targets that are
\* all validations of the provider, the evaluations of the policy with and
\* without .parallel() settle with the same Result or the same failure.
C9_ModeEquivalence ==
    (~Truthy(PolicyEntry.provider._parallel) /\ DistinctTargets \subseteq DOMAIN Fns) =>
        \A r1 \in returned, r2 \in returned :
            (r1.parallel # r2.parallel) => SameOutcome(r1, r2)

\* C10: all the evaluations of one descriptor settle with the same Result,
\* whatever order the concurrently launched validations complete in.
C10_OutcomeDeterministic ==
    \A r1 \in returned, r2 \in returned :
        (r1.parallel = r2.parallel) => SameOutcome(r1, r2)

----------------------------------------------------------------------------
\* The builder claims, stated over what the caller of the proxy sees.

Last == trail.last

TerminalMethods == {"all", "any", "allOf", "anyOf"}

AlreadyFinalized(property) == [err |-> "AlreadyFinalized", by |-> property]

\* A list of names allOf / anyOf take: at least one, all of them strings.
ValidNames(names) ==
    names # <<>> /\ \A i \in DOMAIN names : names[i] \notin NonStringNames

\* C11: once all(), any(), allOf(...) or anyOf(...) has been called on a
\* builder it is finalized for good: every later call of all, any, allOf,
\* anyOf, parallel or a parameter setter throws (the 'already finalized'
\* error, for a setter when given its one value) and leaves method, target,
\* overrides and parallel flag as they were, while compile() succeeds.
C11_FinalizedRejectsCalls ==
    /\ validator.finalized <=> (trail.terminal.property # "none")
    /\ Last.pre.finalized => validator.finalized
    /\ (Last.pre.finalized /\ Last.property \in (TerminalMethods \cup {"parallel"} \cup ParamNames)) =>
          /\ Last.threw
          /\ (Last.property \in ParamNames => Len(Last.args) = 1) =>
                Last.error = AlreadyFinalized(Last.property)
          /\ validator.method = Last.pre.method
          /\ validator.target = Last.pre.target
          /\ validator.params = Last.pre.params
          /\ validator.execParallel = Last.pre.execParallel
    /\ (Last.pre.finalized /\ Last.property = "compile") =>
          ~Last.threw /\ Last.returned.kind = "descriptor"

\* A setter with a well-formed value, called on a finalized builder that
\* holds an override, threw and the override is still the one held.
C11_Witness ==
    /\ Last.pre.finalized /\ Last.property \in ParamNames
    /\ Len(Last.args) = 1 /\ StartsWith(Last.args[1], "$")
    /\ Last.threw
    /\ "id" \in DOMAIN validator.params.entries
    /\ StartsWith(validator.params.entries["id"], "?")

\* C12 as stated: parallel() succeeds whenever it is called, on an Open
\* and on a Finalized builder, and sets the preference that compile() then
\* returns as parallel = true.
C12_ParallelAlwaysCallable ==
    Last.property = "parallel" =>
        /\ ~Last.threw
        /\ ValidatorCompile(validator).parallel = "true"

\* C12, amended: parallel() succeeds on an Open builder, returns the builder
\* and sets the preference, which every later compile() carries as
\* parallel = true; on a Finalized builder it throws the 'already finalized'
\* error and leaves the preference as it was, so that compile() carries
\* parallel = true only if a call of parallel() returned.
C12_ParallelOnlyWhenOpen ==
    /\ (Last.property = "parallel" /\ ~Last.pre.finalized) =>
          /\ ~Last.threw /\ Last.returned.kind = "validator"
          /\ validator = [Last.pre EXCEPT !.execParallel = "true"]
    /\ (Last.property = "parallel" /\ Last.pre.finalized) =>
          /\ Last.threw /\ Last.error = AlreadyFinalized("parallel")
          /\ validator = Last.pre
    /\ Last.property = "compile" =>
          Last.returned.desc.parallel = IF trail.parallel THEN "true" ELSE "undefined"

\* parallel() threw on a finalized builder on which it had not returned
\* before: the preference is still unset.
C12_Witness ==
    /\ Last.property = "parallel" /\ Last.pre.finalized
    /\ Last.threw /\ ~trail.parallel
    /\ validator.method = "anyOf"
    /\ ValidatorCompile(validator).parallel = "undefined"

\* C13: compile() after all() / any() returns that method and target '*';
\* after allOf / anyOf with at least one name, all strings, that method and
\* the names as given, in order; the descriptor's params are the overrides
\* set before that call, frozen.
C13_CompiledTerminal ==
    (Last.property = "compile" /\ trail.terminal.property # "none"
       /\ ~trail.terminal.threw) =>
        LET d == Last.returned.desc
            t == trail.terminal
        IN  /\ d.method = t.property
            /\ t.property \in {"all", "any"} =>
                  d.target.kind = "string" /\ d.target.items = <<"*">>
            /\ t.property \in {"allOf", "anyOf"} =>
                  /\ ValidNames(t.args)
                  /\ d.target.kind = "array" /\ d.target.items = t.args
            /\ d.params.entries = trail.overrides
            /\ d.params.frozen

\* compile() after anyOf('B', 'A') on a builder that was given an override.
C13_Witness ==
    /\ Last.property = "compile"
    /\ trail.terminal = [property |-> "anyOf", threw |-> FALSE, args |-> <<"B", "A">>]
    /\ Last.returned.desc.target.items = <<"B", "A">>
    /\ DOMAIN Last.returned.desc.params.entries = {"id"}

\* C14: a descriptor returned by compile() with method allOf / anyOf has a
\* non-empty target of strings, whatever calls were made before, those that
\* threw included.
C14_TargetNeverEmpty ==
    (Last.property = "compile" /\ ~Last.threw
       /\ Last.returned.desc.method \in {"allOf", "anyOf"}) =>
        /\ Last.returned.desc.target.kind = "array"
        /\ ValidNames(Last.returned.desc.target.items)

\* C15: allOf / anyOf on an Open builder throw when given no name (the error
\* that points to all() / any()) and when a name is not a string (the error
\* naming the first such value).
C15_TerminalRejectsBadNames ==
    (Last.property \in {"allOf", "anyOf"} /\ ~Last.pre.finalized) =>
        /\ Last.args = <<>> =>
              Last.threw /\ Last.error = [err |-> "NoValidationNames", by |-> Last.property]
        /\ (\E i \in DOMAIN Last.args : Last.args[i] \in NonStringNames) =>
              /\ Last.threw
              /\ Last.error.err = "NotAString"
              /\ \E i \in DOMAIN Last.args :
                    /\ Last.error.by = Last.args[i]
                    /\ Last.args[i] \in NonStringNames
                    /\ \A j \in 1..(i-1) : Last.args[j] \notin NonStringNames
        /\ ValidNames(Last.args) => ~Last.threw

\* anyOf() with no name threw on an Open builder.
C15_Witness ==
    /\ Last.property = "anyOf" /\ ~Last.pre.finalized
    /\ Last.args = <<>> /\ Last.threw
    /\ Last.error.err = "NoValidationNames"

\* The call is a parameter setter given one value, on an Open builder.
SetterCallOnOpen ==
    Last.property \in ParamNames /\ ~Last.pre.finalized /\ Len(Last.args) = 1

PrefixedString(x) ==
    StartsWith(x, "?") \/ StartsWith(x, "$") \/ StartsWith(x, "req.")

\* The setter returned the builder, having recorded its value.
SetterRecorded ==
    /\ ~Last.threw /\ Last.returned.kind = "validator"
    /\ validator = [Last.pre EXCEPT
                       !.params.entries = Put(@, Last.property, Last.args[1])]
    /\ trail.overrides[Last.property] = Last.args[1]

\* C16 as stated: the setter records a literal-wrapper object or a string
\* beginning with '?', '$' or 'req.', and throws for any other value.
C16_SetterAcceptsLiterals ==
    SetterCallOnOpen =>
        IF PrefixedString(Last.args[1])
           \/ (Last.args[1].type = "object" /\ Last.args[1].hasValue)
        THEN SetterRecorded
        ELSE Last.threw /\ validator = Last.pre

\* C16, amended: a parameter setter called on an Open builder succeeds,
\* records the override and returns the same builder exactly when its value
\* is a string beginning with '?', '$' or 'req.'; for any other value, a
\* literal-wrapper object included, and when not given exactly one value, it
\* throws and leaves the recorded overrides unchanged.
C16_SetterAcceptsPrefixedStrings ==
    /\ SetterCallOnOpen =>
          IF PrefixedString(Last.args[1])
          THEN SetterRecorded
          ELSE /\ Last.threw /\ validator = Last.pre
               /\ Last.error.err = IF Last.args[1].type = "string"
                                   THEN "InvalidStringValue" ELSE "ExpectedString"
    /\ (Last.property \in ParamNames /\ Len(Last.args) # 1) =>
          Last.threw /\ validator = Last.pre

\* A setter given a literal-wrapper object threw on an Open builder that
\* holds an override recorded earlier.
C16_Witness ==
    /\ SetterCallOnOpen
    /\ Last.args[1].type = "object" /\ Last.args[1].hasValue
    /\ Last.threw /\ Last.error.err = "ExpectedString"
    /\ DOMAIN validator.params.entries # {}
    /\ ~validator.finalized

\* C17: compile() succeeds in every builder state and changes none of it,
\* and a compile() that directly follows a compile() returns a descriptor
\* equal to it in namespace, scheme, method, params, target and parallel.
C17_CompileIdempotent ==
    Last.property = "compile" =>
        /\ ~Last.threw /\ Last.returned.kind = "descriptor"
        /\ validator = Last.pre
        /\ trail.prev.compile => Last.returned.desc = trail.prev.desc

\* Two compile() calls in a row on a finalized builder with names.
C17_Witness ==
    /\ Last.property = "compile" /\ trail.prev.compile
    /\ validator.finalized /\ validator.method = "allOf"
    /\ Len(Last.returned.desc.target.items) = 2
    /\ Last.returned.desc.parallel = "true"

----------------------------------------------------------------------------
\* The claims on hooks and lookups.

\* The policy addresses a provider of the store.
PolicyRegistered ==
    /\ PolicyNamespace \in DOMAIN namespaces
    /\ policy.scheme \in DOMAIN namespaces[PolicyNamespace]

\* The addressed provider has the hook, and what the hook does is throw.
HasHook(h) == PolicyRegistered /\ h \in DOMAIN Fns

HookThrows(h) == HasHook(h) /\ Fns[h] = "throw"

LogIdx(kind, name) == {i \in DOMAIN ev.log : ev.log[i] = Event(kind, name)}

Resolves == {i \in DOMAIN ev.log : ev.log[i].kind = "resolve"}

NoValidationInvoked ==
    /\ ev.started = <<>>
    /\ \A m \in DOMAIN ev.ncalls : ev.ncalls[m] = 0
    /\ \A k \in DOMAIN ev.calls : ev.calls[k] = "notStarted"

\* C18: when the before hook or the params hook of the provider throws, the
\* evaluation ends rejected with that error and no validation is invoked;
\* when it is the before hook, no parameter is resolved either.
C18_HookFailureAborts ==
    /\ HookThrows("before") =>
          /\ NoValidationInvoked
          /\ Resolves = {} /\ ev.params = EmptyMap
          /\ Finished(ev) => (ev.pc = "rejected" /\ ev.error = [err |-> "thrown", by |-> "before"])
          /\ \A r \in returned :
                r.kind = "failure" /\ r.error = [err |-> "thrown", by |-> "before"]
    /\ (HookThrows("params") /\ ~HookThrows("before")) =>
          /\ NoValidationInvoked
          /\ Finished(ev) => (ev.pc = "rejected" /\ ev.error = [err |-> "thrown", by |-> "params"])
          /\ \A r \in returned :
                r.kind = "failure" /\ r.error = [err |-> "thrown", by |-> "params"]

\* An evaluation rejected by its params hook, the before hook having
\* returned and both parameters having been resolved.
C18_Witness ==
    /\ ev.pc = "rejected" /\ ev.error = [err |-> "thrown", by |-> "params"]
    /\ LogIdx("return", "before") # {}
    /\ DOMAIN ev.params = {"id", "user"}
    /\ NoValidationInvoked /\ Len(ev.targets) = 2

\* C19: in an evaluation that found its provider, the before hook is called
\* once and has returned before any parameter is resolved; the params hook
\* is called once, after every parameter of the provider has been resolved;
\* the frozen exports are attached after the params hook has returned; and
\* a validation is started only after that.
C19_HookOrder ==
    (PolicyRegistered /\ ev.pc # "idle") =>
        /\ Cardinality(LogIdx("call", "before")) = IF HasHook("before") THEN 1 ELSE 0
        /\ \A j \in Resolves :
              HasHook("before") => \E i \in LogIdx("return", "before") : i < j
        /\ Cardinality(LogIdx("call", "params")) <= 1
        /\ \A i \in LogIdx("call", "params") :
              /\ HasHook("params")
              /\ {ev.log[j].name : j \in {r \in Resolves : r < i}}
                    = {p.name : p \in Range(PolicyEntry.provider._params)}
              /\ \A j \in Resolves : j < i
        /\ \A i \in LogIdx("attach", policy.scheme) :
              /\ HasHook("params") => \E j \in LogIdx("return", "params") : j < i
              /\ \A j \in Resolves : j < i
        /\ (LogIdx("attach", policy.scheme) # {}) <=>
              (policy.scheme \in DOMAIN req.permissions)
        /\ policy.scheme \in DOMAIN req.permissions =>
              req.permissions[policy.scheme].frozen
        /\ ~NoValidationInvoked =>
              /\ Cardinality(LogIdx("attach", policy.scheme)) = 1
              /\ HasHook("params") => Cardinality(LogIdx("return", "params")) = 1
              /\ HasHook("before") => Cardinality(LogIdx("return", "before")) = 1

\* An evaluation that returned a Result with both hooks and the two
\* parameters behind it.
C19_Witness ==
    /\ ev.pc = "resolved" /\ PolicyRegistered
    /\ HasHook("before") /\ HasHook("params")
    /\ Len(ev.log) = 7
    /\ ev.log[7] = Event("attach", policy.scheme)
    /\ ev.started # <<>>

\* C20: the evaluation of a policy whose namespace is not in the store, or
\* whose scheme is not registered in that namespace, is rejected with the
\* lookup's error: no hook and no validation is invoked, and the request is
\* left as it was.
C20_UnknownProviderRejects ==
    ~PolicyRegistered =>
        /\ ev.pc \in {"idle", "rejected"}
        /\ ev.pc = "rejected" =>
              /\ ev.error = IF PolicyNamespace \notin DOMAIN namespaces
                            THEN [err |-> "NamespaceNotFound", by |-> PolicyNamespace]
                            ELSE [err |-> "SchemeNotFound", by |-> policy.scheme]
        /\ ev.log = <<>> /\ NoValidationInvoked
        /\ req = FreshRequest
        /\ \A r \in returned : r.kind = "failure"

\* A rejected evaluation of a policy whose namespace is in the store but
\* whose scheme is registered in another namespace only.
C20_Witness ==
    /\ ev.pc = "rejected" /\ ev.error.err = "SchemeNotFound"
    /\ PolicyNamespace \in DOMAIN namespaces
    /\ policy.scheme \notin DOMAIN namespaces[PolicyNamespace]
    /\ \E n \in DOMAIN namespaces : policy.scheme \in DOMAIN namespaces[n]
    /\ returned # {}

----------------------------------------------------------------------------
\* What the claims about the provider store are stated over: the calls as
\* their caller sees them.

\* The key of the latest register / unregister call and of the one before.
LastKey == ApiKey(api.last.namespaceArg, api.last.name)

PrevKey == ApiKey(api.prev.namespaceArg, api.prev.name)

\* What the store nss holds under a key, undefined when nothing.
Slot(nss, key) ==
    IF key[1] \in DOMAIN nss /\ key[2] \in DOMAIN nss[key[1]]
    THEN nss[key[1]][key[2]] ELSE NoEntry

\* A provider that register is documented to accept.
WellFormed(provider) ==
    /\ provider.type = "object"
    /\ \A i \in DOMAIN provider._params :
          /\ provider._params[i].value.type = "string"
          /\ provider._params[i].value.prefix \in {"?", "$", "req."}

\* C26: register on a key that a register has taken, and no unregister has
\* freed, throws (the already-registered error when the provider is an
\* object) and leaves the entry as it was; every key taken holds its own
\* provider, whatever the other namespaces hold under that name; with an
\* empty namespace argument the entry is stored in 'global'.
C26_DuplicateRegisterThrows ==
    /\ (api.last.op = "register" /\ LastKey \in DOMAIN api.heldPre) =>
          /\ api.last.threw
          /\ api.last.provider.type = "object" =>
                api.last.error = [err |-> "AlreadyRegistered",
                                  by |-> api.last.name]
          /\ Slot(namespaces, LastKey) = Slot(api.last.pre, LastKey)
          /\ Slot(namespaces, LastKey).provider = api.heldPre[LastKey]
    /\ \A key \in DOMAIN api.held :
          /\ Slot(namespaces, key).provider = api.held[key]
          /\ Slot(namespaces, key).name = key[2]
    /\ (api.last.op = "register" /\ WellFormed(api.last.provider)
           /\ LastKey \notin DOMAIN api.heldPre) => ~api.last.threw
    /\ (api.last.op = "register" /\ ~api.last.threw
           /\ api.last.namespaceArg = "") =>
          /\ api.last.name \in DOMAIN namespaces["global"]
          /\ namespaces["global"][api.last.name].provider = api.last.provider

\* C26 witness: a register on a taken key has thrown while the same name is
\* held in both namespaces, by different providers.
C26_Witness ==
    /\ api.last.op = "register"
    /\ api.last.error.err = "AlreadyRegistered"
    /\ <<"global", api.last.name>> \in DOMAIN api.held
    /\ <<"ns1", api.last.name>> \in DOMAIN api.held
    /\ api.held[<<"global", api.last.name>>] # api.held[<<"ns1", api.last.name>>]
    /\ api.last.provider # api.heldPre[LastKey]

\* C27: unregister returns the entry of the last register of that key that
\* returned and frees the key; on a free key it returns undefined and the
\* store stays as it is, so also when it repeats an unregister; a register
\* of a well-formed provider right after an unregister of its key returns.
C27_UnregisterReturnsAndFrees ==
    /\ api.last.op = "unregister" =>
          /\ Slot(namespaces, LastKey) = NoEntry
          /\ IF LastKey \in DOMAIN api.heldPre
             THEN /\ api.last.found
                  /\ api.last.res.provider = api.heldPre[LastKey]
                  /\ api.last.res.name = api.last.name
                  /\ api.last.res = Slot(api.last.pre, LastKey)
             ELSE /\ ~api.last.found
                  /\ api.last.res = NoEntry
                  /\ namespaces = api.last.pre
    /\ (api.last.op = "unregister" /\ api.prev.op = "unregister"
           /\ PrevKey = LastKey) =>
          (~api.last.found /\ namespaces = api.last.pre)
    /\ (api.last.op = "register" /\ api.prev.op = "unregister"
           /\ PrevKey = LastKey /\ WellFormed(api.last.provider)) =>
          /\ ~api.last.threw
          /\ Slot(namespaces, LastKey).provider = api.last.provider

\* C27 witness: an unregister that returned an entry has been repeated at
\* once and has returned undefined.
C27_Witness ==
    /\ api.last.op = "unregister" /\ ~api.last.found
    /\ api.prev.op = "unregister" /\ api.prev.found
    /\ PrevKey = LastKey

\* C28: register throws for a provider that is not an object and for one
\* with a parameter default that is no string or has none of the three
\* prefixes; what the store holds under the key is as before the call, and
\* on a free key that is nothing.
C28_BadProviderRejected ==
    (api.last.op = "register" /\ ~WellFormed(api.last.provider)) =>
        /\ api.last.threw
        /\ Slot(namespaces, LastKey) = Slot(api.last.pre, LastKey)
        /\ LastKey \notin DOMAIN api.heldPre =>
              /\ Slot(namespaces, LastKey) = NoEntry
              /\ api.last.error.err =
                    IF api.last.provider.type # "object"
                    THEN "NotAProperObject"
                    ELSE IF \E i \in DOMAIN api.last.provider._params :
                              /\ api.last.provider._params[i].name
                                    = api.last.error.by
                              /\ api.last.provider._params[i].value.type
                                    = "string"
                    THEN "InvalidParamPrefix" ELSE "ParamNotAString"

\* C28 witness: a register on a free key has thrown for a default that is
\* not a string.
C28_Witness ==
    /\ api.last.op = "register" /\ api.last.threw
    /\ api.last.error.err = "ParamNotAString"
    /\ LastKey \notin DOMAIN api.heldPre

\* C29: the validations stored by a register that returned are the
\* provider's function-valued keys other than before, after, params and
\* error, each once, in the order of the provider's keys.
C29_ValidationsStored ==
    (api.last.op = "register" /\ ~api.last.threw) =>
        LET p == api.last.provider
            v == Slot(namespaces, LastKey).validations
        IN  /\ Range(v) = {k \in Range(p.keys) : k \in DOMAIN p.fns}
                             \ {"before", "after", "params", "error"}
            /\ \A i, j \in DOMAIN v :
                  i < j => IndexOf(p.keys, v[i]) < IndexOf(p.keys, v[j])

\* C29 witness: a provider with all four lifecycle functions, validations
\* and members that are no functions has been registered.
C29_Witness ==
    /\ api.last.op = "register" /\ ~api.last.threw
    /\ api.last.provider = FullProvider
    /\ Slot(namespaces, LastKey).validations = <<"potet", "notReserved">>

\* C30: Permissions.allOf / anyOf throws for fewer than two validators and
\* otherwise returns an object with that method whose target is the list of
\* validators it was given.
C30_CompoundConstruction ==
    api.last.op \in {"allOf", "anyOf"} =>
        IF Len(api.last.list) < 2
        THEN /\ api.last.threw
             /\ api.last.error = [err |-> "TooFewValidators",
                                  by |-> api.last.op]
        ELSE /\ ~api.last.threw
             /\ api.last.returned.method = api.last.op
             /\ api.last.returned.target = api.last.list

\* C30 witness: anyOf has returned for three validators, one of them a
\* compound validator itself.
C30_Witness ==
    /\ api.last.op = "anyOf" /\ ~api.last.threw
    /\ Len(api.last.list) = 3
    /\ \E i \in 1..3 : api.last.list[i].method = "anyOf"

----------------------------------------------------------------------------
\* What the claims about compound validators are stated over: the validator
\* handed to validate, and what the caller and the calls below it got.

RootOutcome == MatchingOutcome(matching)

\* The result of matcher on the validator v at path, every call being over.
ResultsAt(v, path) == MatcherResults(v, path, matching.calls, matching.evs)

RootResults == ResultsAt(matching.root, <<>>)

\* The result of the i-th validator given in v.target: the same object
\* given twice is evaluated once.
SubResults(v, path, i) ==
    LET k == IndexOf(CompoundTargets(v), v.target[i])
    IN  ResultsAt(CompoundTargets(v)[k], Append(path, k))

\* The failures of a result without the identity of the objects.
FailedSet(results) ==
    { [name |-> f.name, explanation |-> f.explanation] :
        f \in Range(results.failedValidations) }

\* The compound validators at and below v obey the rule of C21.
RECURSIVE CompoundRule(_, _)
CompoundRule(v, path) ==
    FansOut(v) =>
        LET res == ResultsAt(v, path)
            given == DOMAIN v.target
        IN  /\ v.method = "allOf" =>
                  (res.hasPassed <=>
                      \A i \in given : SubResults(v, path, i).hasPassed)
            /\ v.method = "anyOf" =>
                  (res.hasPassed <=>
                      \E i \in given : SubResults(v, path, i).hasPassed)
            /\ Range(res.passedValidations) =
                  UNION { Range(SubResults(v, path, i).passedValidations) :
                            i \in given }
            /\ FailedSet(res) =
                  UNION { FailedSet(SubResults(v, path, i)) : i \in given }
            /\ Range(res.thrownErrors) =
                  UNION { Range(SubResults(v, path, i).thrownErrors) :
                            i \in given }
            /\ \A k \in DOMAIN CompoundTargets(v) :
                  CompoundRule(CompoundTargets(v)[k], Append(path, k))

\* C21: when the evaluation of a compound validator returns a result, every
\* compound validator in it, nested ones included, has passed exactly if
\* all (allOf) or some (anyOf) of its sub-results have, and its passed,
\* failed and thrown lists hold what those of its sub-results hold.
C21_CompoundCombines ==
    RootOutcome.kind = "result" => CompoundRule(matching.root, <<>>)

\* C21 witness: an anyOf over a builder and a nested allOf has returned a
\* passing result although the nested allOf has failed.
C21_Witness ==
    /\ RootOutcome.kind = "result"
    /\ matching.root.method = "anyOf"
    /\ RootResults.hasPassed
    /\ \E i \in DOMAIN matching.root.target :
          /\ matching.root.target[i].method = "allOf"
          /\ FansOut(matching.root.target[i])
          /\ ~SubResults(matching.root, <<>>, i).hasPassed
          /\ SubResults(matching.root, <<>>, i).passedValidations # <<>>

\* C22: a compound result names no validation twice among the passed ones
\* and holds no two failures for the same qualified name.
C22_MergedListsDeduplicated ==
    (RootOutcome.kind = "result" /\ FansOut(matching.root)) =>
        /\ \A i, j \in DOMAIN RootResults.passedValidations :
              RootResults.passedValidations[i]
                  = RootResults.passedValidations[j] => i = j
        /\ \A i, j \in DOMAIN RootResults.failedValidations :
              RootResults.failedValidations[i].name
                  = RootResults.failedValidations[j].name => i = j

\* C23 as stated: every result with a thrown error has not passed, be it
\* of a builder or of a compound validator.
C23_ThrownErrorsForceFailure ==
    RootOutcome.kind = "result" =>
        (RootResults.thrownErrors # <<>> => ~RootResults.hasPassed)

\* Is v made of builders and allOf compounds only?
RECURSIVE AllOfOnly(_)
AllOfOnly(v) ==
    FansOut(v) =>
        /\ v.method = "allOf"
        /\ \A i \in DOMAIN v.target : AllOfOnly(v.target[i])

\* C23: the result of a builder's policy with a thrown error has not
\* passed, whatever its match method, and neither has the result of a
\* compound validator with a thrown error that has no anyOf in it.
C23_ThrownErrorsFailSimpleAndAllOf ==
    /\ \A i \in DOMAIN matching.evs :
          (matching.evs[i].pc = "resolved"
             /\ matching.evs[i].results.thrownErrors # <<>>) =>
                ~matching.evs[i].results.hasPassed
    /\ (RootOutcome.kind = "result" /\ AllOfOnly(matching.root)
           /\ RootResults.thrownErrors # <<>>) => ~RootResults.hasPassed

\* C23 witness: an allOf compound has returned a failed result with a
\* thrown error of one builder while another builder's policy has passed.
C23_Witness ==
    /\ RootOutcome.kind = "result"
    /\ FansOut(matching.root) /\ AllOfOnly(matching.root)
    /\ RootResults.thrownErrors # <<>>
    /\ ~RootResults.hasPassed
    /\ \E i \in DOMAIN matching.evs : matching.evs[i].results.hasPassed

\* The calls that have rejected.
RejectedCalls == {i \in DOMAIN matching.evs : matching.evs[i].pc = "rejected"}

\* C24: once a call below a compound validator has rejected (an unknown
\* namespace or scheme, a builder without match method, a validator that is
\* no object, a malformed compound, a throwing hook), the evaluation has
\* rejected, with the error of a call that rejected: that of the only one
\* if there is one only.
C24_SubFailureRejects ==
    (matching.pc = "running" /\ RejectedCalls # {}) =>
        /\ RootOutcome.kind = "failure"
        /\ \E i \in RejectedCalls : RootOutcome.error = matching.evs[i].error
        /\ RootOutcome.error.err \in
              { "MalformedTarget", "NamespaceNotFound", "SchemeNotFound",
                "NotAValidator", "TooFewTargets", "InvalidCompoundMethod",
                "thrown" }
        /\ RootOutcome.error.err = "thrown" =>
              RootOutcome.error.by \in {"before", "params"}

\* C24 witness: an anyOf compound has rejected with the error of a before
\* hook while the policy of another builder in it has passed.
C24_Witness ==
    /\ matching.root.method = "anyOf" /\ FansOut(matching.root)
    /\ RootOutcome = [kind |-> "failure", error |-> ThrownBy("before")]
    /\ \E i \in DOMAIN matching.evs :
          matching.evs[i].pc = "resolved" /\ matching.evs[i].results.hasPassed

\* The calls on the object Permissions.none() returns.
NopCalls(m) ==
    { i \in DOMAIN m.calls :
        m.calls[i].validator.kind = "object"
          /\ m.calls[i].validator.method = "NOP" }

\* C25: a call of the matcher on the no-op validator is over as it is
\* made, with hasPassed true, ':NOP' as the only passed validation and no
\* failed validation or thrown error; it has called no hook and no
\* validation, and when the no-op is the validator handed to validate, the
\* step leaves the store and the request as they are.
C25_NopPasses ==
    [][ /\ \A i \in NopCalls(matching') :
              /\ matching'.evs[i].pc = "resolved"
              /\ matching'.evs[i].results =
                    [ hasPassed |-> TRUE,
                      passedValidations |-> << <<"", "NOP">> >>,
                      failedValidations |-> <<>>, thrownErrors |-> <<>> ]
              /\ matching'.evs[i].log = <<>>
              /\ matching'.evs[i].started = <<>>
        /\ (matching.pc = "idle" /\ matching'.pc = "running"
               /\ NopCalls(matching') # {} /\ Len(matching'.calls) = 1) =>
              /\ MatchingOutcome(matching').kind = "result"
              /\ req' = req
              /\ namespaces' = namespaces ]_vars

\* C25 witness: the no-op validator has been evaluated on a request that
\* an earlier evaluation has left its exports on.
C25_Witness ==
    /\ matching.pc = "running"
    /\ NopCalls(matching) = {1} /\ Len(matching.calls) = 1
    /\ RootOutcome.kind = "result"
    /\ RootResults.hasPassed
    /\ req # FreshRequest

----------------------------------------------------------------------------
\* Calls that throw, and what they leave behind.

\* C37: allOf / anyOf called on an Open builder with no name or with a name
\* that is not a string throws and leaves the builder as it was: not
\* finalized, without method and target.
C37_ThrowingTerminalLeavesBuilder ==
    (Last.property \in {"allOf", "anyOf"} /\ ~Last.pre.finalized
       /\ Last.threw) =>
        /\ validator = Last.pre
        /\ ~validator.finalized
        /\ validator.target = NoTarget

\* The evaluation of for(scheme, namespace).allOf('A') on the store nss, up
\* to its first await.
StartOn(nss, scheme, namespaceArg) ==
    MatchTrueValidator(
        ValidatorCompile(BuildValidator(
            [ scheme |-> scheme, namespaceArg |-> namespaceArg,
              method |-> "allOf", names |-> <<"A">> ], FALSE)),
        nss)

\* C39: a register call that throws leaves the store as it was, the set of
\* namespaces included, so that an evaluation against any namespace starts
\* or fails as it would have before the call.
C39_ThrowingRegisterLeavesStore ==
    (api.last.op = "register" /\ api.last.threw) =>
        /\ namespaces = api.last.pre
        /\ DOMAIN namespaces = DOMAIN api.last.pre
        /\ \A scheme \in RegistryNames, namespaceArg \in NamespaceArgs :
              StartOn(namespaces, scheme, namespaceArg)
                  = StartOn(api.last.pre, scheme, namespaceArg)

\* The calls made for the validator with reference ref given to the root,
\* and the places they were made from.
CallsFor(ref) ==
    { i \in DOMAIN matching.calls :
        /\ Len(matching.calls[i].path) = 1
        /\ matching.calls[i].validator.ref = ref }

\* The calls that wait for a hook or a validation to settle.
Suspended ==
    { i \in DOMAIN matching.evs :
        matching.evs[i].pc \in {"beforeHook", "paramsHook", "seq", "awaitAll"} }

----------------------------------------------------------------------------
\* What evaluations leave on the request, and how parameters reach them.

\* The entry an export map makes in req.permissions.
Bound(exports) == [frozen |-> TRUE, exports |-> exports]

\* C31: once evaluations have returned results on one request, each
\* (namespace, scheme) pair evaluated has an entry of its own in
\* req.permissions, frozen and holding the exports of its provider.
C31_ExportsKeptApart ==
    (ev.pc \in {"idle", "resolved"}) =>
        /\ \A k \in DOMAIN context.exports :
              \E key \in DOMAIN req.permissions :
                  req.permissions[key] = Bound(context.exports[k])
        /\ Cardinality(DOMAIN req.permissions)
              >= Cardinality(DOMAIN context.exports)

\* C32: through an evaluation the request keeps its parameters, cookies and
\* data fields, and req.permissions keeps every entry but the one of the
\* scheme evaluated, the only entry that may be added.
C32_OnlyOwnEntryChanges ==
    /\ req.param = context.pre.param
    /\ req.cookies = context.pre.cookies
    /\ req.fields = context.pre.fields
    /\ ev.pc = "idle" => req = context.pre
    /\ \A k \in DOMAIN context.pre.permissions :
          k # ev.desc.scheme =>
              /\ k \in DOMAIN req.permissions
              /\ req.permissions[k] = context.pre.permissions[k]
    /\ DOMAIN req.permissions
          \subseteq DOMAIN context.pre.permissions \cup {ev.desc.scheme}

\* C32 witness: 'admin' has returned a result on a request that held the
\* exports of 'user'; the entry of 'user' and the request's parameters are
\* there as before, next to the new entry of 'admin'.
C32_Witness ==
    /\ ev.pc = "resolved" /\ ev.desc.scheme = "admin"
    /\ "user" \in DOMAIN context.pre.permissions
    /\ "admin" \notin DOMAIN context.pre.permissions
    /\ req.permissions["user"] = context.pre.permissions["user"]
    /\ req.permissions["admin"] = Bound(ev.exports)
    /\ ev.exports # EmptyMap
    /\ req.param = FreshRequest.param

\* The positions of the policy's setter calls for the parameter n.
Overrides(n) ==
    { i \in DOMAIN policy.overrides : policy.overrides[i].name = n }

\* The names of the provider's default parameters.
DefaultNames(provider) ==
    { provider._params[i].name : i \in DOMAIN provider._params }

\* The evaluation has a provider and is past its parameter extraction.
Extracted ==
    ev.pc \in {"paramsHook", "extract", "seq", "awaitAll", "resolved"}

\* C33: the definitions resolved are one per default parameter of the
\* provider, in their order; the definition is the builder's when the
\* builder set that name, else the default; a name set on the builder that
\* is no default is among neither the definitions nor the parameters given
\* to the hooks and validations.
C33_MergedDefinitions ==
    (ev.pc # "idle" /\ ev.scheme # NoScheme) =>
        LET defaults == ev.scheme.provider._params
        IN  /\ Len(ev.paramDefs) = Len(defaults)
            /\ \A i \in DOMAIN defaults :
                  /\ ev.paramDefs[i].name = defaults[i].name
                  /\ ev.paramDefs[i].value =
                        IF Overrides(defaults[i].name) # {}
                        THEN policy.overrides[
                                 CHOOSE j \in Overrides(defaults[i].name) : TRUE].value
                        ELSE defaults[i].value
            /\ DOMAIN ev.params \subseteq DefaultNames(ev.scheme.provider)
            /\ Extracted =>
                  DOMAIN ev.params = DefaultNames(ev.scheme.provider)

\* C33 witness: the builder set 'user', a default, and 'extra', which is
\* none; the evaluation returned with 'user' read from the cookie and with
\* no parameter 'extra'.
C33_Witness ==
    /\ ev.pc = "resolved"
    /\ Overrides("user") # {} /\ Overrides("extra") # {}
    /\ ev.params["user"] = Val("c00k1e")
    /\ "extra" \notin DOMAIN ev.params
    /\ ev.params["id"] = Val("41")

\* What the documentation gives for a definition on the request r: the
\* request parameter, the cookie, or the field reached segment by segment.
Documented(d, r) ==
    LET W[i \in 0..Len(d.rest)] ==
            IF i = 0 THEN Obj(r.fields)
            ELSE IF W[i-1].t = "obj" /\ d.rest[i] \in DOMAIN W[i-1].f
            THEN W[i-1].f[d.rest[i]]
            ELSE Val("undefined")
    IN  CASE d.prefix = "?" ->
               Val(IF d.rest \in DOMAIN r.param THEN r.param[d.rest]
                   ELSE "undefined")
          [] d.prefix = "$" ->
               Val(IF d.rest \in DOMAIN r.cookies THEN r.cookies[d.rest]
                   ELSE "undefined")
          [] d.prefix = "req." -> W[Len(d.rest)]

\* C34: every parameter extracted holds what its definition names on the
\* request, undefined when the name or a segment of the path is missing or
\* leads through a value that is no object; and no evaluation is rejected
\* for it.
C34_ResolvedFromRequest ==
    (ev.pc # "idle" /\ ev.scheme # NoScheme) =>
        /\ ev.pc # "rejected"
        /\ \A i \in DOMAIN ev.paramDefs :
              ev.paramDefs[i].name \in DOMAIN ev.params =>
                  ev.params[ev.paramDefs[i].name]
                      = Documented(ev.paramDefs[i].value, context.pre)

\* C34 witness: 'id' was set to a path whose second segment is missing and
\* which goes on below it; the evaluation returned, 'id' undefined and
\* 'user' read from req.auth.user.
C34_Witness ==
    /\ ev.pc = "resolved"
    /\ ev.paramDefs[1].value = DefString("req.", <<"auth", "nope", "deep">>)
    /\ ev.params["id"] = Val("undefined")
    /\ ev.params["user"] = Val("u7")
    /\ ev.results.hasPassed

\* C35: the validations run concurrently when the descriptor's parallel is
\* true, one after the other when it is false, and as the provider's
\* _parallel says when the descriptor has none.
C35_DescriptorModeWins ==
    (ev.pc \in {"seq", "awaitAll", "resolved"}) =>
        ev.runParallel =
            CASE ev.desc.parallel = "true" -> TRUE
              [] ev.desc.parallel = "false" -> FALSE
              [] OTHER -> Truthy(ev.scheme.provider._parallel)

\* C38: no before, params, after or error member of the provider is called
\* as a validation, and none is named in passedValidations or
\* failedValidations.
C38_HooksNeverValidations ==
    (ev.pc # "idle") =>
        /\ \A t \in DOMAIN ev.ncalls \cap ReservedNames : ev.ncalls[t] = 0
        /\ \A i \in DOMAIN ev.results.passedValidations :
              LET n == ev.results.passedValidations[i]
              IN  n[Len(n)] \notin ReservedNames
        /\ \A i \in DOMAIN ev.results.failedValidations :
              LET n == ev.results.failedValidations[i].name
              IN  n[Len(n)] \notin ReservedNames

\* Where an evaluation waits for a hook or a validation to settle.
Waiting == {"beforeHook", "paramsHook", "seq", "awaitAll"}

\* C40: an evaluation that found its provider in the store goes on with
\* that provider whatever is unregistered or registered meanwhile: its
\* hooks and validations are that provider's, it is not rejected, and its
\* result is the one that provider gives; an evaluation started while the
\* name was not registered is rejected with SchemeNotFound.
C40_HeldProviderSurvives ==
    (ev.pc # "idle") =>
        IF context.held = NoScheme
        THEN ev.pc = "rejected" /\ ev.error.err = "SchemeNotFound"
        ELSE LET fns == context.held.provider.fns
             IN  /\ ev.pc # "rejected"
                 /\ ev.scheme = context.held
                 /\ ev.runParallel =>
                       (Truthy(ev.desc.parallel)
                          \/ Truthy(context.held.provider._parallel))
                 /\ \A k \in DOMAIN ev.calls :
                       ev.calls[k] = "fulfilled" => ev.vals[k] = fns[ev.targets[k]]
                 /\ \A i \in DOMAIN ev.log :
                       ev.log[i].kind = "call" => ev.log[i].name \in DOMAIN fns
                 /\ ev.pc = "resolved" =>
                       ev.results.hasPassed =
                           IF ev.desc.method = "allOf"
                           THEN \A k \in DOMAIN ev.targets : fns[ev.targets[k]] = "true"
                           ELSE \E k \in DOMAIN ev.targets : fns[ev.targets[k]] = "true"

\* C40 witness: 'user' was unregistered while the evaluation waited, and
\* another provider has the name now; the evaluation returned the result
\* of the provider it had found.
C40_Witness ==
    /\ ev.pc = "resolved"
    /\ context.held.provider = UserProvider
    /\ context.unregisteredAt \in Waiting
    /\ "user" \in DOMAIN namespaces["global"]
    /\ namespaces["global"]["user"].provider = AdminProvider
    /\ ev.desc.method = "anyOf" /\ ev.results.hasPassed
    /\ ev.ncalls["A"] = 1 /\ ev.ncalls["B"] = 1

====
